---- MODULE Spec2Model ----
(***************************************************************************)
(* Daymark: the live-preview decoration builder (src/src/live-preview.ts)  *)
(* and the cross-file note index (NoteIndex, src/src/main.ts:524-958).     *)
(*                                                                         *)
(* Text is a sequence of one-character strings.  Offsets are 0-based as in *)
(* CodeMirror: CharAt(s, k) is the character at offset k, and a range      *)
(* [from, to) covers the offsets from .. to-1.                             *)
(***************************************************************************)
EXTENDS Integers, Sequences, FiniteSets, TLC

\* ------------------------------------------------------------------------
\* Bounds of the model
\* ------------------------------------------------------------------------

\* number of inline fragments in a document of the decoration builder
MaxFrags == 3

\* number of leading tabs of a line
MaxTabs == 4

\* length of the document typed into the editor of the live-preview plugin
MaxTypedLen == 4

\* number of entries the note index holds
MaxEntries == 2

\* number of readable note files a directory scan finds
MaxFiles == 2

\* ------------------------------------------------------------------------
\* Text helpers
\* ------------------------------------------------------------------------

Min(S) == CHOOSE x \in S : \A y \in S : x <= y

Max(S) == CHOOSE x \in S : \A y \in S : x >= y

CharAt(s, k) == IF k >= 0 /\ k < Len(s) THEN s[k + 1] ELSE ""

Slice(s, a, b) == SubSeq(s, a + 1, b)

StartsAt(s, k, pat) ==
  /\ k >= 0
  /\ k + Len(pat) <= Len(s)
  /\ \A i \in 1..Len(pat) : s[k + i] = pat[i]

\* least offset >= j at which pat occurs, -1 when there is none
FirstAt(s, j, pat) ==
  LET hits == {k \in j..Len(s) : StartsAt(s, k, pat)}
  IN  IF hits = {} THEN -1 ELSE Min(hits)

Lower == {"a","b","c","d","e","f","g","h","i","j","k","l","m",
          "n","o","p","q","r","s","t","u","v","w","x","y","z"}
Upper == {"A","B","C","D","E","F","G","H","I","J","K","L","M",
          "N","O","P","Q","R","S","T","U","V","W","X","Y","Z"}
Digit == {"0","1","2","3","4","5","6","7","8","9"}

\* the backtick character U+0060, which a TLA+ string cannot hold
BACKTICK == "bq"

\* \s of a JavaScript regular expression, over the characters the model uses
IsSpace(c) == c \in {" ", "\t", "\n"}

RECURSIVE Flatten(_)
Flatten(ss) == IF ss = <<>> THEN <<>> ELSE Head(ss) \o Flatten(Tail(ss))

\* doc.lines / doc.line(i): the lines of a document, [from, to) without the "\n"
RECURSIVE LinesFrom(_, _)
LinesFrom(doc, from) ==
  LET nl == {k \in from..(Len(doc) - 1) : doc[k + 1] = "\n"}
  IN  IF nl = {}
      THEN << [from |-> from, to |-> Len(doc)] >>
      ELSE << [from |-> from, to |-> Min(nl)] >> \o LinesFrom(doc, Min(nl) + 1)

DocLines(doc) == LinesFrom(doc, 0)

\* doc.lineAt(pos).number
lineAt(doc, pos) ==
  LET ls == DocLines(doc)
  IN  CHOOSE i \in 1..Len(ls) : ls[i].from <= pos /\ pos <= ls[i].to

\* String.prototype.matchAll with a sticky matcher: MatchAt(i) is the record of
\* the match starting at offset i (field end) or [end |-> -1]; the scan resumes
\* at the end of each match, so matches never overlap.
MatchAll(text, MatchAt(_)) ==
  LET n == Len(text)
      scan[i \in 0..n] ==
        IF i >= n THEN <<>>
        ELSE LET m == MatchAt(i)
             IN  IF m.end < 0 THEN scan[i + 1]
                 ELSE << m >> \o scan[m.end]
  IN  scan[0]

NoMatch == [end |-> -1]

\* ------------------------------------------------------------------------
\* Inline patterns of buildDecorations
\* ------------------------------------------------------------------------

\* bold pattern (live-preview.ts:333): a two-character delimiter, two stars or two
\* underscores, a lazy non-empty content, and the same delimiter again
boldAt(text, i) ==
  LET d == IF StartsAt(text, i, <<"*", "*">>) THEN <<"*", "*">>
           ELSE IF StartsAt(text, i, <<"_", "_">>) THEN <<"_", "_">>
           ELSE <<>>
      c == IF d = <<>> THEN -1 ELSE FirstAt(text, i + 3, d)
  IN  IF c < 0 THEN NoMatch
      ELSE [index |-> i, end |-> c + 2, markerLen |-> 2, content |-> c - (i + 2)]

\* one alternative of the italic pattern: a delimiter d that has no d next to it,
\* a lazy non-empty content, and the first later d that has no d next to it
italicAlt(text, i, d) ==
  LET lone(k) == CharAt(text, k) = d /\ CharAt(text, k - 1) # d /\ CharAt(text, k + 1) # d
      close == {j \in (i + 2)..(Len(text) - 1) : lone(j)}
  IN  IF lone(i) /\ close # {}
      THEN [index |-> i, end |-> Min(close) + 1, markerLen |-> 1, content |-> Min(close) - (i + 1)]
      ELSE NoMatch

\* italic pattern (live-preview.ts:353): the star alternative, then the underscore one
italicAt(text, i) ==
  LET star == italicAlt(text, i, "*")
  IN  IF star.end >= 0 THEN star ELSE italicAlt(text, i, "_")

\* strikethrough pattern (live-preview.ts:373): two tildes, lazy content, two tildes
strikeAt(text, i) ==
  LET c == IF StartsAt(text, i, <<"~", "~">>) THEN FirstAt(text, i + 3, <<"~", "~">>) ELSE -1
  IN  IF c < 0 THEN NoMatch
      ELSE [index |-> i, end |-> c + 2, markerLen |-> 2, content |-> c - (i + 2)]

\* inline code pattern (live-preview.ts:392): a backtick neither preceded nor followed
\* by a backtick, a lazy non-empty content, and the next backtick
codeAt(text, i) ==
  LET open == /\ CharAt(text, i) = BACKTICK
              /\ CharAt(text, i - 1) # BACKTICK
              /\ CharAt(text, i + 1) # BACKTICK
      c == IF open THEN FirstAt(text, i + 2, <<BACKTICK>>) ELSE -1
  IN  IF c < 0 THEN NoMatch
      ELSE [index |-> i, end |-> c + 1, markerLen |-> 1, content |-> c - (i + 1)]

\* wiki-link pattern (live-preview.ts:411): [[, lazy non-empty content, ]]
wikiAt(text, i) ==
  LET c == IF StartsAt(text, i, <<"[", "[">>) THEN FirstAt(text, i + 3, <<"]", "]">>) ELSE -1
  IN  IF c < 0 THEN NoMatch
      ELSE [index |-> i, end |-> c + 2, markerLen |-> 2, content |-> c - (i + 2)]

\* http:// or https:// at offset i: the offset after it, or -1
schemeEnd(text, i) ==
  IF StartsAt(text, i, <<"h","t","t","p","s",":","/","/">>) THEN i + 8
  ELSE IF StartsAt(text, i, <<"h","t","t","p",":","/","/">>) THEN i + 7
  ELSE -1

\* external link pattern (live-preview.ts:431): [text](url) tried first, then a bare URL
\* that runs up to the next whitespace
\* kind "md": [text](url), linkText long; kind "bare": a bare URL
extlinkAt(text, i) ==
  LET r == IF CharAt(text, i) = "[" /\ CharAt(text, i + 1) \notin {"]", ""}
           THEN FirstAt(text, i + 2, <<"]">>) ELSE -1
      p == IF r >= 0 /\ CharAt(text, r + 1) = "(" THEN schemeEnd(text, r + 2) ELSE -1
      q == IF p >= 0 /\ CharAt(text, p) \notin {")", ""}
           THEN FirstAt(text, p + 1, <<")">>) ELSE -1
      b == schemeEnd(text, i)
      ws == {k \in (b + 1)..(Len(text) - 1) : IsSpace(text[k + 1])}
  IN  IF q >= 0
      THEN [index |-> i, end |-> q + 1, kind |-> "md", linkText |-> r - (i + 1)]
      ELSE IF b >= 0 /\ CharAt(text, b) # "" /\ ~IsSpace(CharAt(text, b))
      THEN [index |-> i, end |-> IF ws = {} THEN Len(text) ELSE Min(ws),
            kind |-> "bare", linkText |-> 0]
      ELSE NoMatch

\* the run of letters, digits, _ / - & starting at offset j: the offset after it
tagRunEnd(text, j) ==
  LET tagChar(c) == c \in Lower \cup Upper \cup Digit \cup {"_", "/", "-", "&"}
      stop == {k \in j..(Len(text) - 1) : ~tagChar(text[k + 1])}
  IN  IF stop = {} THEN Len(text) ELSE Min(stop)

\* mention pattern (live-preview.ts:533): at the line start or after whitespace, an @,
\* a letter or underscore, and the run of tag characters
mentionAt(text, i) ==
  IF /\ (i = 0 \/ IsSpace(CharAt(text, i - 1)))
     /\ CharAt(text, i) = "@"
     /\ CharAt(text, i + 1) \in Lower \cup Upper \cup {"_"}
  THEN [index |-> i, end |-> tagRunEnd(text, i + 2)]
  ELSE NoMatch

\* hashtag pattern (live-preview.ts:544): at the line start or after whitespace, a #,
\* a letter, and the run of tag characters
hashtagAt(text, i) ==
  IF /\ (i = 0 \/ IsSpace(CharAt(text, i - 1)))
     /\ CharAt(text, i) = "#"
     /\ CharAt(text, i + 1) \in Lower \cup Upper
  THEN [index |-> i, end |-> tagRunEnd(text, i + 2)]
  ELSE NoMatch

\* ------------------------------------------------------------------------
\* Decorations
\* ------------------------------------------------------------------------
\* A decoration is a record: type "replace" (Decoration.replace), "mark"
\* (Decoration.mark), "line" (Decoration.line) or "widget" (Decoration.widget),
\* the class or widget it carries, and its range; a line or widget decoration
\* has to = from.  Field by names the pass of the builder that pushed it; it is
\* bookkeeping of the model and no part of what the editor renders.

\* hidden.range(from, to)
hidden(from, to, by) ==
  [type |-> "replace", cls |-> "hidden", from |-> from, to |-> to, by |-> by]

\* syntaxFade.range(from, to)
syntaxFade(from, to, by) ==
  [type |-> "mark", cls |-> "syntax-fade", from |-> from, to |-> to, by |-> by]

\* Decoration.mark({class}).range(from, to)
markDeco(cls, from, to, by) ==
  [type |-> "mark", cls |-> cls, from |-> from, to |-> to, by |-> by]

\* Decoration.replace({widget}).range(from, to)
widgetReplace(cls, from, to, by) ==
  [type |-> "replace", cls |-> cls, from |-> from, to |-> to, by |-> by]

\* Decoration.line({class}).range(from)
lineDeco(cls, from, by) ==
  [type |-> "line", cls |-> cls, from |-> from, to |-> from, by |-> by]

\* Decoration.widget({widget: LinkArrowWidget, side: 1}).range(pos)
arrowWidget(pos, by) ==
  [type |-> "widget", cls |-> "extlink-arrow", from |-> pos, to |-> pos, by |-> by]

\* headingLineDecos[level], indentLineDecos[n]
headingCls(level) == << "h", level >>
indentCls(n) == << "indent", n >>

\* TaskWidget(taskState)
taskCls(taskState) == << "task", taskState >>

\* cursorIn of buildDecorations and buildDecorationsFromTree
cursorInBeforeEnd(cursorPos, from, to) == cursorPos >= from /\ cursorPos < to

cursorIn(cursorPos, from, to) == cursorPos >= from /\ cursorPos <= to

\* number of tab characters of s, capped: Math.min((s.match(/\t/g) || []).length, 3)
IndentCap == 3
capTabs(n) == IF n < IndentCap THEN n ELSE IndentCap

tabCountOf(s) == capTabs(Cardinality({i \in 1..Len(s) : s[i] = "\t"}))

\* d put into the sorted list rest after every element that is not after it
insertSorted(rest, d, keep) ==
  IF keep = {} THEN << d >> \o rest
  ELSE SubSeq(rest, 1, Max(keep)) \o << d >> \o SubSeq(rest, Max(keep) + 1, Len(rest))

\* the comparator of decorations.sort puts d before rest[i] when d starts
\* earlier, or starts there and ends earlier
insertLast(rest, d) ==
  insertSorted(rest, d,
    {i \in 1..Len(rest) :
       ~(d.from < rest[i].from \/ (d.from = rest[i].from /\ d.to < rest[i].to))})

\* decorations.sort((a, b) => a.from - b.from || a.to - b.to): a stable sort
RECURSIVE sortDecorations(_)
sortDecorations(ds) ==
  IF ds = <<>> THEN <<>>
  ELSE insertLast(sortDecorations(SubSeq(ds, 1, Len(ds) - 1)), ds[Len(ds)])

\* ------------------------------------------------------------------------
\* buildDecorations: the per-line passes (live-preview.ts:281-552)
\* ------------------------------------------------------------------------

\* length of the run of characters of set cs at the start of text
leadRun(text, cs) ==
  LET stop == {k \in 0..(Len(text) - 1) : text[k + 1] \notin cs}
  IN  IF stop = {} THEN Len(text) ELSE Min(stop)

\* the heading pattern on a line that starts with n #: 1 to 6 of them and
\* one whitespace character; hashes is match[1].length, len is match[0].length
hashRun(text, n) ==
  IF n >= 1 /\ n <= 6 /\ IsSpace(CharAt(text, n))
  THEN [ok |-> TRUE, hashes |-> n, len |-> n + 1]
  ELSE [ok |-> FALSE, hashes |-> 0, len |-> 0]

\* headingMatch (live-preview.ts:286)
headingMatch(text) == hashRun(text, leadRun(text, {"#"}))

\* quoteMatch (live-preview.ts:287): > at the line start and an optional space
quoteMatch(text) ==
  IF CharAt(text, 0) = ">"
  THEN [ok |-> TRUE, len |-> IF CharAt(text, 1) = " " THEN 2 ELSE 1]
  ELSE [ok |-> FALSE, len |-> 0]

\* the alternatives of the task pattern after w characters of whitespace: a
\* bracketed task marker (group 3), a star bullet (group 4) or a bare - or +
\* (group 5); dash says that a - or + and a space come first
taskPrefix(text, w, dash) ==
  IF /\ dash
     /\ CharAt(text, w + 2) = "["
     /\ CharAt(text, w + 3) \in {"x", "-", ">", " "}
     /\ CharAt(text, w + 4) = "]"
     /\ CharAt(text, w + 5) = " "
  THEN [ok |-> TRUE, indent |-> w, prefix |-> 6, g |-> 3, marker |-> CharAt(text, w + 3)]
  ELSE IF CharAt(text, w) = "*" /\ CharAt(text, w + 1) = " "
  THEN [ok |-> TRUE, indent |-> w, prefix |-> 2, g |-> 4, marker |-> ""]
  ELSE IF dash THEN [ok |-> TRUE, indent |-> w, prefix |-> 2, g |-> 5, marker |-> ""]
  ELSE [ok |-> FALSE, indent |-> 0, prefix |-> 0, g |-> 0, marker |-> ""]

\* taskMatch (live-preview.ts:313)
taskMatch(text) ==
  taskPrefix(text, leadRun(text, {" ", "\t"}),
             /\ CharAt(text, leadRun(text, {" ", "\t"})) \in {"-", "+"}
             /\ CharAt(text, leadRun(text, {" ", "\t"}) + 1) = " ")

\* afterMarker.match of live-preview.ts:486: [ ] with at most one character between
midEditBox(text, k) ==
  /\ CharAt(text, k) = "["
  /\ \/ CharAt(text, k + 1) = "]"
     \/ CharAt(text, k + 1) # "" /\ CharAt(text, k + 2) = "]"

\* taskState of live-preview.ts:473-489; "none" is null
taskStateOf(text, tm) ==
  IF tm.g = 3
  THEN IF tm.marker = "x" THEN "done"
       ELSE IF tm.marker = "-" THEN "cancelled"
       ELSE IF tm.marker = ">" THEN "scheduled"
       ELSE "open"
  ELSE IF tm.g = 5 /\ ~midEditBox(text, tm.indent + 2) THEN "open"
  ELSE "none"

\* a heading by regex (live-preview.ts:290-299)
headingDecos(hm, lf, onCursorLine, cursorPos) ==
  IF hm.ok
  THEN << lineDeco(headingCls(hm.hashes), lf, "heading"),
          IF onCursorLine /\ cursorIn(cursorPos, lf, lf + hm.len)
          THEN syntaxFade(lf, lf + hm.hashes, "heading")
          ELSE hidden(lf, lf + hm.len, "heading") >>
  ELSE <<>>

\* a blockquote by regex (live-preview.ts:302-310)
quoteDecos(qm, lf, onCursorLine, cursorPos) ==
  IF qm.ok
  THEN << lineDeco("blockquote", lf, "quote"),
          IF onCursorLine /\ cursorIn(cursorPos, lf, lf + qm.len)
          THEN syntaxFade(lf, lf + qm.len, "quote")
          ELSE hidden(lf, lf + qm.len, "quote") >>
  ELSE <<>>

\* headings and blockquotes by regex, only when the tree is not used (286-310)
blockRegexDecos(text, lf, onCursorLine, cursorPos) ==
  headingDecos(headingMatch(text), lf, onCursorLine, cursorPos)
  \o quoteDecos(quoteMatch(text), lf, onCursorLine, cursorPos)

\* the decorations of the n leading tabs of a line; skip says that the line
\* is a heading, a blockquote, a task or a list line taken from the tree
tabRunDecos(n, lf, skip, inTabPrefix) ==
  IF ~skip /\ n > 0 /\ ~inTabPrefix
  THEN << hidden(lf, lf + n, "tab"),
          lineDeco(indentCls(capTabs(n)), lf, "tab") >>
  ELSE <<>>

\* tab-indented paragraphs (live-preview.ts:317-328)
tabDecos(text, lf, onCursorLine, cursorPos, fromTree) ==
  tabRunDecos(leadRun(text, {"\t"}), lf,
              headingMatch(text).ok \/ quoteMatch(text).ok \/ taskMatch(text).ok \/ fromTree,
              onCursorLine /\ cursorIn(cursorPos, lf, lf + leadRun(text, {"\t"})))

\* the three decorations of one paired-delimiter span (live-preview.ts:337-349
\* and the same shape at 357-369, 376-388, 395-407, 419-427)
spanDecos(m, cls, lf, onCursorLine, cursorPos) ==
  IF onCursorLine /\ cursorIn(cursorPos, lf + m.index, lf + m.end)
  THEN << syntaxFade(lf + m.index, lf + m.index + m.markerLen, cls),
          markDeco(cls, lf + m.index + m.markerLen, lf + m.index + m.markerLen + m.content, cls),
          syntaxFade(lf + m.end - m.markerLen, lf + m.end, cls) >>
  ELSE << hidden(lf + m.index, lf + m.index + m.markerLen, cls),
          markDeco(cls, lf + m.index + m.markerLen, lf + m.index + m.markerLen + m.content, cls),
          hidden(lf + m.end - m.markerLen, lf + m.end, cls) >>

\* the decorations of the matches ms of one paired-delimiter pattern
spansOf(ms, cls, lf, onCursorLine, cursorPos) ==
  Flatten([k \in 1..Len(ms) |-> spanDecos(ms[k], cls, lf, onCursorLine, cursorPos)])

\* all matches of one paired-delimiter pattern on a line
spanPass(text, At(_, _), cls, lf, onCursorLine, cursorPos) ==
  spansOf(MatchAll(text, LAMBDA i : At(text, i)), cls, lf, onCursorLine, cursorPos)

\* external links and bare URLs (live-preview.ts:431-464)
extlinkDecos(m, lf, onCursorLine, cursorPos) ==
  IF m.kind = "bare"
  THEN << markDeco("extlink", lf + m.index, lf + m.end, "extlink") >>
  ELSE IF onCursorLine /\ cursorIn(cursorPos, lf + m.index, lf + m.end)
  THEN << syntaxFade(lf + m.index, lf + m.index + 1, "extlink"),
          markDeco("extlink", lf + m.index + 1, lf + m.index + 1 + m.linkText, "extlink"),
          syntaxFade(lf + m.index + 1 + m.linkText, lf + m.end, "extlink") >>
  ELSE << hidden(lf + m.index, lf + m.index + 1, "extlink"),
          markDeco("extlink", lf + m.index + 1, lf + m.index + 1 + m.linkText, "extlink"),
          hidden(lf + m.index + 1 + m.linkText, lf + m.end, "extlink"),
          arrowWidget(lf + m.index + 1 + m.linkText, "extlink") >>

\* the decorations of the external-link matches ms
extlinksOf(ms, lf, onCursorLine, cursorPos) ==
  Flatten([k \in 1..Len(ms) |-> extlinkDecos(ms[k], lf, onCursorLine, cursorPos)])

\* all external links and bare URLs of a line
extlinkPass(text, lf, onCursorLine, cursorPos) ==
  extlinksOf(MatchAll(text, LAMBDA i : extlinkAt(text, i)), lf, onCursorLine, cursorPos)

\* the decorations of a task or bullet line (live-preview.ts:494-530)
taskLineDecos(tm, taskState, tabCount, showingRaw, lf, lt) ==
  (IF tm.indent > 0
   THEN (IF tabCount > 0
         THEN << hidden(lf, lf + tm.indent, "task"),
                 lineDeco(indentCls(tabCount), lf, "task") >>
         ELSE <<>>)
        \o << lineDeco("list-line", lf, "task") >>
   ELSE IF ~showingRaw THEN << lineDeco("list-line", lf, "task") >>
   ELSE <<>>)
  \o
  (IF showingRaw THEN <<>>
   ELSE IF taskState # "none"
   THEN << widgetReplace(taskCls(taskState), lf + tm.indent, lf + tm.indent + tm.prefix, "task") >>
   ELSE IF tm.g = 4
   THEN << widgetReplace("bullet", lf + tm.indent, lf + tm.indent + tm.prefix, "task") >>
   ELSE <<>>)
  \o
  (IF taskState = "done" THEN << lineDeco("task-done-line", lf, "task") >>
   ELSE IF taskState = "cancelled"
   THEN << lineDeco("task-cancelled-line", lf, "task") >>
        \o (IF lf + tm.indent + tm.prefix < lt
            THEN << markDeco("task-cancelled-text", lf + tm.indent + tm.prefix, lt, "task") >>
            ELSE <<>>)
   ELSE IF taskState = "scheduled"
   THEN << lineDeco("task-scheduled-line", lf, "task") >>
   ELSE <<>>)

\* the task pass on a line with task match tm (live-preview.ts:467-492)
taskPass(text, tm, lf, lt, onCursorLine, cursorPos, fromTree) ==
  IF ~tm.ok \/ fromTree THEN <<>>
  ELSE taskLineDecos(tm, taskStateOf(text, tm), tabCountOf(SubSeq(text, 1, tm.indent)),
                     onCursorLine /\ cursorIn(cursorPos, lf, lf + tm.indent + tm.prefix),
                     lf, lt)

\* tasks and bullets by regex (live-preview.ts:467-530)
taskDecos(text, lf, lt, onCursorLine, cursorPos, fromTree) ==
  taskPass(text, taskMatch(text), lf, lt, onCursorLine, cursorPos, fromTree)

\* @mentions and #hashtags (live-preview.ts:533-551)
tagsOf(ms, cls, lf) ==
  [k \in 1..Len(ms) |-> markDeco(cls, lf + ms[k].index, lf + ms[k].end, cls)]

tagPass(text, At(_, _), cls, lf) == tagsOf(MatchAll(text, LAMBDA i : At(text, i)), cls, lf)

\* the passes over one line text (live-preview.ts:286-552)
linePasses(text, lf, lt, onCursorLine, cursorPos, useTreeForBlocks, fromTree) ==
  (IF useTreeForBlocks THEN <<>> ELSE blockRegexDecos(text, lf, onCursorLine, cursorPos))
  \o tabDecos(text, lf, onCursorLine, cursorPos, fromTree)
  \o spanPass(text, boldAt, "bold", lf, onCursorLine, cursorPos)
  \o spanPass(text, italicAt, "italic", lf, onCursorLine, cursorPos)
  \o spanPass(text, strikeAt, "strikethrough", lf, onCursorLine, cursorPos)
  \o spanPass(text, codeAt, "code", lf, onCursorLine, cursorPos)
  \o spanPass(text, wikiAt, "wikilink", lf, onCursorLine, cursorPos)
  \o extlinkPass(text, lf, onCursorLine, cursorPos)
  \o taskDecos(text, lf, lt, onCursorLine, cursorPos, useTreeForBlocks /\ fromTree)
  \o tagPass(text, mentionAt, "mention", lf)
  \o tagPass(text, hashtagAt, "hashtag", lf)

\* one iteration of the loop over the lines (live-preview.ts:281-552)
lineDecorations(doc, line, onCursorLine, cursorPos, useTreeForBlocks, fromTree) ==
  linePasses(Slice(doc, line.from, line.to), line.from, line.to,
             onCursorLine, cursorPos, useTreeForBlocks, fromTree)

\* ------------------------------------------------------------------------
\* syntaxTree(state): the block structure the markdown parser reports
\* ------------------------------------------------------------------------
\* buildDecorationsFromTree reads six node types of the tree that
\* @codemirror/lang-markdown (CommonMark with the GFM task-list extension)
\* builds: ATXHeading1..6, HeaderMark, Blockquote, QuoteMark, ListMark and
\* TaskMarker.  The operators below give these nodes for the documents the
\* model builds (DocInputs): every line is leading tabs, at most one block
\* prefix, and inline text.  A ListMark covers the marker character alone;
\* a TaskMarker is [ ], [x] or [X] at the start of a list item, followed by
\* whitespace.

\* column reached after the first n characters of text (a tab stop every 4)
RECURSIVE colsOf(_, _)
colsOf(text, n) ==
  IF n = 0 THEN 0
  ELSE LET c == colsOf(text, n - 1)
       IN  IF text[n] = "\t" THEN c + 4 - (c % 4) ELSE c + 1

\* a thematic break at offset w: three or more of one of * - _ and blanks only
isRule(text, w) ==
  LET rest == {text[k] : k \in (w + 1)..Len(text)} \ {" ", "\t"}
      n == Cardinality({k \in (w + 1)..Len(text) : text[k] \notin {" ", "\t"}})
  IN  n >= 3 /\ Cardinality(rest) = 1 /\ rest \subseteq {"*", "-", "_"}

\* length of the run of character c at offset w
runAt(text, w, c) ==
  LET stop == {k \in w..(Len(text) - 1) : text[k + 1] # c}
  IN  (IF stop = {} THEN Len(text) ELSE Min(stop)) - w

\* a code fence opening at offset w: its character and length, "" when none
fenceAt(text, w) ==
  LET c == CharAt(text, w)
      n == runAt(text, w, c)
      info == {text[k] : k \in (w + n + 1)..Len(text)}
  IN  IF c = "~" /\ n >= 3 THEN [ch |-> c, n |-> n]
      ELSE IF c = BACKTICK /\ n >= 3 /\ BACKTICK \notin info THEN [ch |-> c, n |-> n]
      ELSE [ch |-> "", n |-> 0]

\* the line closes the open fence f
closesFence(text, w, f) ==
  LET n == runAt(text, w, f.ch)
  IN  n >= f.n /\ leadRun(SubSeq(text, w + n + 1, Len(text)), {" ", "\t"}) = Len(text) - w - n

\* number of # of an ATX heading at offset w, 0 when there is none
atxAt(text, w) ==
  LET n == runAt(text, w, "#")
  IN  IF n >= 1 /\ n <= 6 /\ CharAt(text, w + n) \in {" ", "\t", ""} THEN n ELSE 0

\* a bullet list marker at offset w
bulletAt(text, w) ==
  CharAt(text, w) \in {"-", "+", "*"} /\ CharAt(text, w + 1) \in {" ", "\t", ""}

\* offset of the TaskMarker of the list item whose marker is at offset w, or -1
taskMarkerAt(text, w) ==
  LET sp == leadRun(SubSeq(text, w + 2, Len(text)), {" ", "\t"})
      q == w + 1 + sp
  IN  IF /\ sp >= 1
         /\ colsOf(text, q) - colsOf(text, w + 1) <= 4
         /\ CharAt(text, q) = "["
         /\ CharAt(text, q + 1) \in {" ", "x", "X"}
         /\ CharAt(text, q + 2) = "]"
         /\ CharAt(text, q + 3) \in {" ", "\t"}
      THEN q ELSE -1

NoFence == [ch |-> "", n |-> 0]

\* a line that is part of no node the builder reads and leaves context c open
otherBlock(c) ==
  [kind |-> "other", at |-> 0, level |-> 0, task |-> -1, ctx |-> c, fence |-> NoFence]

\* offset of the content of a block quote whose > is at offset w
quoteContentAt(text, w) == IF CharAt(text, w + 1) = " " THEN w + 2 ELSE w + 1

\* the content of a block quote line, at offset q, opens a paragraph
innerPara(text, q) ==
  /\ leadRun(SubSeq(text, q + 1, Len(text)), {" ", "\t"}) # Len(SubSeq(text, q + 1, Len(text)))
  /\ ~isRule(text, q) /\ fenceAt(text, q).ch = "" /\ atxAt(text, q) = 0
  /\ ~bulletAt(text, q) /\ CharAt(text, q) # ">"

\* a list item with nothing after its marker at offset w
emptyItem(text, w) ==
  bulletAt(text, w) /\ leadRun(SubSeq(text, w + 2, Len(text)), {" ", "\t"}) = Len(text) - w - 1

\* the block of a line that is not blank, not indented code and not inside a
\* fence: w is its indentation, f the fence and h the heading found there
blockStart(ctx, text, w, inItem, f, h) ==
  IF isRule(text, w) THEN otherBlock("top")
  ELSE IF f.ch # "" THEN [otherBlock("fence") EXCEPT !.fence = f]
  ELSE IF h > 0
  THEN [kind |-> "heading", at |-> w, level |-> h, task |-> -1,
        ctx |-> IF inItem THEN "list" ELSE "top", fence |-> NoFence]
  ELSE IF CharAt(text, w) = ">"
  THEN [kind |-> "quote", at |-> w, level |-> 0, task |-> -1,
        ctx |-> IF innerPara(text, quoteContentAt(text, w)) THEN "quotePara" ELSE "quote",
        fence |-> NoFence]
  ELSE IF bulletAt(text, w) /\ ~(emptyItem(text, w) /\ ctx \in {"para", "quotePara", "list"})
  THEN [kind |-> "list", at |-> w, level |-> 0, task |-> taskMarkerAt(text, w),
        ctx |-> "list", fence |-> NoFence]
  ELSE IF ctx = "quotePara"
  THEN [otherBlock("quotePara") EXCEPT !.kind = "lazyQuote"]
  ELSE otherBlock(IF ctx = "list" THEN "list" ELSE "para")

\* the block of a line with indentation w that reaches column cols; inItem
\* says that the line continues the open list item
blockAt(ctx, fence, text, w, cols, inItem) ==
  IF ctx = "fence"
  THEN IF cols < 4 /\ closesFence(text, w, fence) THEN otherBlock("top")
       ELSE [otherBlock("fence") EXCEPT !.fence = fence]
  ELSE IF w = Len(text)
  THEN otherBlock(IF ctx \in {"list", "code"} THEN ctx ELSE "top")
  ELSE IF cols >= 4 /\ ~inItem
  THEN IF ctx \in {"top", "code", "quote"} THEN otherBlock("code")
       ELSE IF ctx = "quotePara"
       THEN [otherBlock("quotePara") EXCEPT !.kind = "lazyQuote"]
       ELSE otherBlock(ctx)
  ELSE blockStart(ctx, text, w, inItem, fenceAt(text, w), atxAt(text, w))

\* the block a line starts or continues, given what the line before left open:
\* ctx is "top" (nothing open), "para", "code" (indented code), "fence",
\* "quote" (a block quote without an open paragraph), "quotePara" or "list"
\* (a list item with content column 2)
blockOfLine(ctx, fence, text) ==
  blockAt(ctx, fence, text, leadRun(text, {" ", "\t"}),
          colsOf(text, leadRun(text, {" ", "\t"})),
          /\ ctx = "list"
          /\ colsOf(text, leadRun(text, {" ", "\t"})) >= 2
          /\ colsOf(text, leadRun(text, {" ", "\t"})) < 6)

RECURSIVE blocksFrom(_, _, _, _, _)

\* block b of line i and the blocks of the lines after it
blocksAfter(doc, ls, i, b) == << b >> \o blocksFrom(doc, ls, i + 1, b.ctx, b.fence)

\* the blocks of all lines of the document, in line order
blocksFrom(doc, ls, i, ctx, fence) ==
  IF i > Len(ls) THEN <<>>
  ELSE blocksAfter(doc, ls, i, blockOfLine(ctx, fence, Slice(doc, ls[i].from, ls[i].to)))

\* line i of the blocks bs is part of a block quote
quoted(bs, i) == bs[i].kind \in {"quote", "lazyQuote"}

\* the last line of the block quote that holds line i
runEnd(bs, i) ==
  CHOOSE j \in i..Len(bs) :
    /\ \A k \in i..j : quoted(bs, k)
    /\ (j = Len(bs) \/ ~quoted(bs, j + 1))

\* the nodes of line i, whose block b starts at offset p of the document
nodesAt(ls, bs, i, b, p) ==
  IF b.kind = "heading"
  THEN << [name |-> "ATXHeading", level |-> b.level, from |-> p, to |-> ls[i].to],
          [name |-> "HeaderMark", level |-> 0, from |-> p, to |-> p + b.level] >>
  ELSE IF b.kind = "quote"
  THEN (IF i = 1 \/ ~quoted(bs, i - 1)
        THEN << [name |-> "Blockquote", level |-> 0, from |-> p, to |-> ls[runEnd(bs, i)].to] >>
        ELSE <<>>)
       \o << [name |-> "QuoteMark", level |-> 0, from |-> p, to |-> p + 1] >>
  ELSE IF b.kind = "list"
  THEN << [name |-> "ListMark", level |-> 0, from |-> p, to |-> p + 1] >>
       \o (IF b.task >= 0
           THEN << [name |-> "TaskMarker", level |-> 0,
                    from |-> ls[i].from + b.task, to |-> ls[i].from + b.task + 3] >>
           ELSE <<>>)
  ELSE <<>>

\* the nodes of the lines ls with blocks bs
nodesOf(ls, bs) ==
  Flatten([i \in 1..Len(ls) |-> nodesAt(ls, bs, i, bs[i], ls[i].from + bs[i].at)])

\* the nodes of the tree that buildDecorationsFromTree acts on, in the order
\* tree.iterate enters them
syntaxTree(doc) == nodesOf(DocLines(doc), blocksFrom(doc, DocLines(doc), 1, "top", NoFence))

\* ------------------------------------------------------------------------
\* buildDecorationsFromTree (live-preview.ts:124-259)
\* ------------------------------------------------------------------------

\* the line of the document that holds offset pos
lineOf(doc, pos) == DocLines(doc)[lineAt(doc, pos)]

\* the Blockquote case of tree.iterate (live-preview.ts:171-179): one line
\* class for every line from node.from up to node.to
RECURSIVE quoteLines(_, _, _)
quoteLines(doc, pos, to) ==
  IF pos < to
  THEN << lineDeco("blockquote", lineOf(doc, pos).from, "tree-quote") >>
       \o quoteLines(doc, lineOf(doc, pos).to + 1, to)
  ELSE <<>>

\* the decorations tree.iterate pushes on entering one node (live-preview.ts:140-209)
enterNode(doc, cursorPos, node) ==
  IF node.name = "ATXHeading"
  THEN << lineDeco(headingCls(node.level), node.from, "tree-heading") >>
  ELSE IF node.name = "HeaderMark"
  THEN << IF cursorIn(cursorPos, node.from, node.to)
          THEN syntaxFade(node.from, node.to, "tree-heading")
          ELSE hidden(node.from, node.to, "tree-heading") >>
  ELSE IF node.name = "Blockquote"
  THEN quoteLines(doc, node.from, node.to)
  ELSE IF node.name = "QuoteMark"
  THEN << IF cursorIn(cursorPos, node.from, node.to)
          THEN syntaxFade(node.from, node.to, "tree-quote")
          ELSE hidden(node.from, node.to, "tree-quote") >>
  ELSE <<>>

\* the nodes called name on the line that starts at lf
onLine(doc, nodes, name, lf) ==
  {k \in 1..Len(nodes) : nodes[k].name = name /\ lineOf(doc, nodes[k].from).from = lf}

\* the TaskMarker nodes seen after the first ListMark of the line
tasksAfter(marks, taskNodes) ==
  IF marks = {} THEN {} ELSE {k \in taskNodes : k > Min(marks)}

\* the entry of a line with ListMark nodes marks and TaskMarker nodes tasks
listLineEntry(nodes, marks, tasks) ==
  [has |-> marks # {},
   listMark |-> IF marks = {} THEN [from |-> 0, to |-> 0]
                ELSE [from |-> nodes[Max(marks)].from, to |-> nodes[Max(marks)].to],
   hasTask |-> marks # {} /\ tasks # {},
   taskMarker |-> IF marks = {} \/ tasks = {} THEN [from |-> 0, to |-> 0]
                  ELSE [from |-> nodes[Max(tasks)].from, to |-> nodes[Max(tasks)].to]]

\* listLinesByLineFrom (live-preview.ts:137, 192-208): for every line with a
\* ListMark, the last ListMark and the last TaskMarker of the line
listLineInfo(doc, nodes, lf) ==
  listLineEntry(nodes, onLine(doc, nodes, "ListMark", lf),
                tasksAfter(onLine(doc, nodes, "ListMark", lf), onLine(doc, nodes, "TaskMarker", lf)))

\* a list line is taken from the tree when it is a GFM task or a * bullet
\* (live-preview.ts:217-220)
takenFromTree(doc, info) ==
  LET listMarkText == Slice(doc, info.listMark.from, info.listMark.to)
      isGfmTask == info.hasTask
      isBulletOnly == ~info.hasTask /\ listMarkText \in {<<"*", " ">>, <<"*", "\t">>}
  IN  info.has /\ (isGfmTask \/ isBulletOnly)

\* the post-pass over one collected list line (live-preview.ts:214-258)
treeListDecos(doc, cursorPos, line, info) ==
  LET listMark == info.listMark
      taskMarker == info.taskMarker
      indentStart == line.from
      indentEnd == listMark.from
      hasIndent == indentEnd > indentStart
      prefixEnd == IF info.hasTask THEN taskMarker.to ELSE listMark.to
      showingRaw == cursorIn(cursorPos, line.from, prefixEnd)
      tabCount == tabCountOf(Slice(doc, indentStart, indentEnd))
      markerText == Slice(doc, taskMarker.from, taskMarker.to)
      checked == Len(markerText) >= 2 /\ markerText[2] \in {"x", "X"}
  IN  IF ~takenFromTree(doc, info) THEN <<>>
      ELSE
        (IF hasIndent
         THEN (IF tabCount > 0
               THEN << hidden(indentStart, indentEnd, "tree-list"),
                       lineDeco(indentCls(tabCount), line.from, "tree-list") >>
               ELSE <<>>)
              \o << lineDeco("list-line", line.from, "tree-list") >>
         ELSE IF ~showingRaw THEN << lineDeco("list-line", line.from, "tree-list") >>
         ELSE <<>>)
        \o
        (IF showingRaw THEN <<>>
         ELSE IF info.hasTask
         THEN << hidden(listMark.from, listMark.to, "tree-list"),
                 widgetReplace(taskCls(IF checked THEN "done" ELSE "open"),
                               taskMarker.from, taskMarker.to, "tree-list") >>
              \o (IF checked THEN << lineDeco("task-done-line", line.from, "tree-list") >>
                  ELSE <<>>)
         ELSE << widgetReplace("bullet", listMark.from, listMark.to, "tree-list") >>)

\* the starts of the lines ls that the post-pass takes from the nodes
listLinesOf(doc, ls, nodes) ==
  {ls[i].from : i \in {j \in 1..Len(ls) :
                         takenFromTree(doc, listLineInfo(doc, nodes, ls[j].from))}}

\* linesWithListFromTree after buildDecorationsFromTree
linesWithListFromTree(doc) == listLinesOf(doc, DocLines(doc), syntaxTree(doc))

\* tree.iterate over the nodes, then the post-pass over the list lines
treeDecos(doc, cursorPos, ls, nodes) ==
  Flatten([k \in 1..Len(nodes) |-> enterNode(doc, cursorPos, nodes[k])])
  \o Flatten([i \in 1..Len(ls) |->
                treeListDecos(doc, cursorPos, ls[i], listLineInfo(doc, nodes, ls[i].from))])

buildDecorationsFromTree(doc, cursorPos) ==
  treeDecos(doc, cursorPos, DocLines(doc), syntaxTree(doc))

\* ------------------------------------------------------------------------
\* buildDecorations (live-preview.ts:266-557)
\* ------------------------------------------------------------------------
\* treeComplete is tree.length >= doc.length: whether the incremental parser
\* has covered the whole document when the builder runs.

\* the loop over the lines ls (live-preview.ts:281-552)
lineLoop(doc, ls, cursorLine, cursorPos, useTreeForBlocks, fromTree) ==
  Flatten([i \in 1..Len(ls) |->
             lineDecorations(doc, ls[i], i = cursorLine, cursorPos,
                             useTreeForBlocks, ls[i].from \in fromTree)])

buildDecorations(doc, cursorPos, treeComplete) ==
  sortDecorations(
    (IF treeComplete THEN buildDecorationsFromTree(doc, cursorPos) ELSE <<>>)
    \o lineLoop(doc, DocLines(doc), lineAt(doc, cursorPos), cursorPos, treeComplete,
                IF treeComplete THEN linesWithListFromTree(doc) ELSE {}))

\* ------------------------------------------------------------------------
\* State
\* ------------------------------------------------------------------------

VARIABLES
  doc,           \* view.state.doc: the text of the open document
  selAnchor,     \* view.state.selection.main.anchor
  selHead,       \* view.state.selection.main.head
  treeComplete,  \* syntaxTree(state).length >= doc.length
  cursorPos,     \* the plugin's cursorPos field
  decorations,   \* the plugin's decorations field
  upd,           \* the last ViewUpdate: docChanged, viewportChanged, and whether
                 \* update() called buildDecorations for it
  entries,       \* NoteIndex._entries
  byLinkKey,     \* NoteIndex._byLinkKey: link key -> positions in entries
  byRelPath,     \* NoteIndex._byRelPath: path -> position in entries
  backlinkIndex, \* NoteIndex._backlinkIndex: link key -> paths
  scanned,       \* the entries array of a scanDirectory call in flight
  pc,            \* position of the running operation
  fsys,          \* the note files on disk: which can be read, and their text
  reads,         \* the scanDirectory or searchLines calls in flight
  result,        \* what the last query returned
  requests,      \* single-entry operations a caller has prepared and not yet made
  currentNote,   \* main.ts:97 (the note's relPath, "null" for null)
  saveTimeout,   \* main.ts:98: "null", or the timer set last: "pending" or "fired"
  view,          \* main.ts:99: "null", or the note whose content the state was created from
  isDirty,       \* main.ts:100
  navHistory,    \* main.ts:102
  navIndex,      \* main.ts:103
  tasks          \* the writeTextFile and loadFile calls awaited, in the order started

lpVars == << doc, selAnchor, selHead, treeComplete, cursorPos, decorations, upd >>

idxVars == << entries, byLinkKey, byRelPath, backlinkIndex, scanned >>

envVars == << fsys, reads, result, requests >>

appVars == << currentNote, saveTimeout, view, isDirty, navHistory, navIndex, tasks >>

vars == << doc, selAnchor, selHead, treeComplete, cursorPos, decorations, upd,
          entries, byLinkKey, byRelPath, backlinkIndex, scanned, pc,
          fsys, reads, result, requests,
          currentNote, saveTimeout, view, isDirty, navHistory, navIndex, tasks >>

\* an empty Map
EmptyMap == << >>

\* the index of a NoteIndex that was constructed and never built
InitIndexVars ==
  /\ entries = << >>
  /\ byLinkKey = EmptyMap
  /\ byRelPath = EmptyMap
  /\ backlinkIndex = EmptyMap
  /\ scanned = << >>

\* no files, no call in flight, no query made and no single-entry operation
\* prepared
InitEnvVars ==
  /\ fsys = << >>
  /\ reads = << >>
  /\ result = << >>
  /\ requests = {}

\* the module state of main.ts before init() (main.ts:97-103)
InitAppVars ==
  /\ currentNote = "null"
  /\ saveTimeout = "null"
  /\ view = "null"
  /\ isDirty = FALSE
  /\ navHistory = << >>
  /\ navIndex = -1
  /\ tasks = << >>

NoUpdate == [docChanged |-> FALSE, viewportChanged |-> FALSE, rebuilt |-> FALSE]

\* ------------------------------------------------------------------------
\* Inputs of the decoration builder
\* ------------------------------------------------------------------------

InlineFrags ==
  { << "a" >>, << "*", "*" >>, << "*" >>, << "_" >>, << "~", "~" >>, << BACKTICK >>,
    << "[", "[" >>, << "]", "]" >>, << " ", "@", "a" >>, << "\n" >> }

\* inline text: up to MaxFrags fragments
InlineTexts ==
  UNION {{Flatten(fs) : fs \in [1..k -> InlineFrags]} : k \in 0..MaxFrags}

BlockPrefixes ==
  { <<>>,
    << "-", " " >>, << "*", " " >>,
    << "-", " ", "[", " ", "]", " " >>, << "-", " ", "[", "x", "]", " " >>,
    << "-", " ", "[", "X", "]", " " >>, << "-", " ", "[", "-", "]", " " >>,
    << "-", " ", "[", ">", "]", " " >>, << "-", " ", "[", "x", "]" >>,
    << "*", " ", "[", "x", "]", " " >>,
    << "#", "#", " " >>, << ">", " " >> }

BlockBodies ==
  { << "a" >>, << "a", "*" >>, << "@", "a" >>,
    << "[", "a", "]", "(", "h", "t", "t", "p", ":", "/", "/", "u", ")" >>,
    << "h", "t", "t", "p", "s", ":", "/", "/", "u", " ", "*", "a", "*" >> }

\* what precedes the line: nothing, a paragraph, a list item or a block quote
FirstLines ==
  { <<>>, << "a", "\n" >>, << "-", " ", "a", "\n" >>, << ">", " ", "a", "\n" >> }

Tabs(n) == [i \in 1..n |-> "\t"]

\* block documents: an optional first line, then leading tabs, a block prefix
\* and a body
BlockDocs ==
  {f \o Tabs(n) \o p \o b : f \in FirstLines, n \in 0..MaxTabs, p \in BlockPrefixes, b \in BlockBodies}

DocInputs == InlineTexts \cup BlockDocs

\* ------------------------------------------------------------------------
\* The decoration builder as a function of its inputs
\* ------------------------------------------------------------------------

InitBuild ==
  /\ doc \in DocInputs
  /\ selHead \in 0..Len(doc)
  /\ selAnchor = selHead
  /\ treeComplete \in BOOLEAN
  /\ cursorPos = selHead
  /\ decorations = <<>>
  /\ upd = NoUpdate
  /\ InitIndexVars
  /\ InitEnvVars
  /\ pc = "input"
  /\ InitAppVars

\* the constructor of the plugin: one call of buildDecorations
Build ==
  /\ pc = "input"
  /\ decorations' = buildDecorations(doc, cursorPos, treeComplete)
  /\ pc' = "built"
  /\ UNCHANGED << doc, selAnchor, selHead, treeComplete, cursorPos, upd >>
  /\ UNCHANGED << idxVars, envVars >>
  /\ UNCHANGED appVars

NextBuild == Build

SpecBuild == InitBuild /\ [][NextBuild]_vars

\* ------------------------------------------------------------------------
\* Properties of the decoration builder
\* ------------------------------------------------------------------------

\* a hide, replace-glyph or mark (fade included) decoration: one with a range
Ranged(d) == d.type \in {"replace", "mark"}

Overlap(a, b) == a.from < b.to /\ b.from < a.to

\* what the editor renders of a decoration: everything but the bookkeeping
Visible(d) == [type |-> d.type, cls |-> d.cls, from |-> d.from, to |-> d.to]

VisibleList(ds) == [i \in 1..Len(ds) |-> Visible(ds[i])]

\* the decoration list holds a decoration of this type, class and range pushed
\* by pass by
Emits(ds, type, cls, from, to, by) ==
  \E i \in 1..Len(ds) :
    ds[i] = [type |-> type, cls |-> cls, from |-> from, to |-> to, by |-> by]

\* C1: no two hide / replace-glyph / mark (fade included) decorations of the
\* result overlap in range; line classes are exempt.
C1_NoOverlap ==
  pc = "built" =>
    \A i, j \in 1..Len(decorations) :
      (i < j /\ Ranged(decorations[i]) /\ Ranged(decorations[j]))
        => ~Overlap(decorations[i], decorations[j])

\* the paired-delimiter spans of a line, each with the class of its pattern
pairedSpans(text) ==
  LET tag(ms, cls) == {[m |-> ms[k], cls |-> cls] : k \in 1..Len(ms)}
  IN  tag(MatchAll(text, LAMBDA i : boldAt(text, i)), "bold")
      \cup tag(MatchAll(text, LAMBDA i : italicAt(text, i)), "italic")
      \cup tag(MatchAll(text, LAMBDA i : strikeAt(text, i)), "strikethrough")
      \cup tag(MatchAll(text, LAMBDA i : codeAt(text, i)), "code")
      \cup tag(MatchAll(text, LAMBDA i : wikiAt(text, i)), "wikilink")

\* the spans of the document: class, range and delimiter length
docSpans ==
  LET ls == DocLines(doc)
  IN  UNION {{[cls |-> s.cls, start |-> ls[i].from + s.m.index, end |-> ls[i].from + s.m.end,
               len |-> s.m.markerLen, line |-> i] : s \in pairedSpans(Slice(doc, ls[i].from, ls[i].to))}
             : i \in 1..Len(ls)}

\* C2: for every paired-delimiter span (bold, italic, strikethrough, inline
\* code, wiki link) the builder emits Fade, and not Hide, over both delimiters
\* when the cursor lies within the span, and Hide, and not Fade, over both
\* otherwise, in particular when the cursor is on another line.
C2_RevealPolicy ==
  pc = "built" =>
    \A s \in docSpans :
      LET inside == cursorPos >= s.start /\ cursorPos <= s.end
          fadeOpen == Emits(decorations, "mark", "syntax-fade", s.start, s.start + s.len, s.cls)
          fadeClose == Emits(decorations, "mark", "syntax-fade", s.end - s.len, s.end, s.cls)
          hideOpen == Emits(decorations, "replace", "hidden", s.start, s.start + s.len, s.cls)
          hideClose == Emits(decorations, "replace", "hidden", s.end - s.len, s.end, s.cls)
      IN  /\ inside => (fadeOpen /\ fadeClose /\ ~hideOpen /\ ~hideClose)
          /\ ~inside => (hideOpen /\ hideClose /\ ~fadeOpen /\ ~fadeClose)
          /\ lineAt(doc, cursorPos) # s.line => (hideOpen /\ hideClose)

\* a bold span with the cursor right after its first star, faded
C2_Witness ==
  /\ pc = "built"
  /\ \E s \in docSpans :
       /\ s.cls = "bold" /\ cursorPos = s.start + 1
       /\ Emits(decorations, "mark", "syntax-fade", s.start, s.start + 2, "bold")

\* the task state of every line, by the marker the line starts with
lineTaskStates ==
  LET ls == DocLines(doc)
  IN  [i \in 1..Len(ls) |->
         LET text == Slice(doc, ls[i].from, ls[i].to)
             tm == taskMatch(text)
         IN  [state |-> IF tm.ok THEN taskStateOf(text, tm) ELSE "none",
              from |-> ls[i].from, to |-> ls[i].to,
              prefixEnd |-> ls[i].from + tm.indent + tm.prefix]]

HasLineClass(ds, cls, from) ==
  \E i \in 1..Len(ds) : ds[i].type = "line" /\ ds[i].cls = cls /\ ds[i].from = from

\* C3: every done, cancelled or scheduled task line carries its task-state
\* line class for every cursor offset, with or without the syntax tree, and a
\* cancelled task with text after its marker carries a mark over exactly that text.
C3_TaskStateClasses ==
  pc = "built" =>
    \A i \in 1..Len(lineTaskStates) :
      LET t == lineTaskStates[i]
      IN  /\ t.state = "done" => HasLineClass(decorations, "task-done-line", t.from)
          /\ t.state = "scheduled" => HasLineClass(decorations, "task-scheduled-line", t.from)
          /\ t.state = "cancelled" =>
               /\ HasLineClass(decorations, "task-cancelled-line", t.from)
               /\ t.prefixEnd < t.to =>
                    \E k \in 1..Len(decorations) :
                      Visible(decorations[k]) =
                        [type |-> "mark", cls |-> "task-cancelled-text",
                         from |-> t.prefixEnd, to |-> t.to]

\* C5: the result depends on the text and the cursor offset alone: built with
\* the tree complete or not, the decoration list is the same.
C5_Deterministic ==
  pc = "built" =>
    VisibleList(decorations) = VisibleList(buildDecorations(doc, cursorPos, ~treeComplete))

\* ------------------------------------------------------------------------
\* The livePreview view plugin (live-preview.ts:561-589)
\* ------------------------------------------------------------------------

cursorMovedAnySelection(empty, newPos, oldPos) == newPos # oldPos

\* the second branch of update(): a collapsed cursor that moved
\* (live-preview.ts:578)
cursorMoved(empty, newPos, oldPos) == empty /\ newPos # oldPos

\* update(update: ViewUpdate), on the state the transaction produced
\* (the primed document, selection and tree)
update(docChanged, viewportChanged) ==
  LET newPos == selHead'
      empty == selAnchor' = selHead'
  IN  IF docChanged \/ viewportChanged
      THEN /\ cursorPos' = newPos
           /\ decorations' = buildDecorations(doc', newPos, treeComplete')
           /\ upd' = [docChanged |-> docChanged, viewportChanged |-> viewportChanged,
                      rebuilt |-> TRUE]
      ELSE IF cursorMoved(empty, newPos, cursorPos)
      THEN /\ cursorPos' = newPos
           /\ decorations' = buildDecorations(doc', newPos, treeComplete')
           /\ upd' = [docChanged |-> docChanged, viewportChanged |-> viewportChanged,
                      rebuilt |-> TRUE]
      ELSE /\ UNCHANGED << cursorPos, decorations >>
           /\ upd' = [docChanged |-> docChanged, viewportChanged |-> viewportChanged,
                      rebuilt |-> FALSE]

TypedFrags == { << "*", "a", "*" >>, << "\n" >>, << ">", " " >> }

\* the constructor (live-preview.ts:566-569) on an empty document
InitPlugin ==
  /\ doc = <<>>
  /\ selAnchor = 0
  /\ selHead = 0
  /\ treeComplete \in BOOLEAN
  /\ cursorPos = 0
  /\ decorations = buildDecorations(<<>>, 0, treeComplete)
  /\ upd = NoUpdate
  /\ InitIndexVars
  /\ InitEnvVars
  /\ pc = "idle"
  /\ InitAppVars

\* the user types a fragment at the cursor; the view may scroll with it, and
\* the parser may or may not have caught up when the plugin is updated
TypeText ==
  /\ \E f \in TypedFrags, vp \in BOOLEAN, tc \in BOOLEAN :
       /\ Len(doc) + Len(f) <= MaxTypedLen
       /\ doc' = SubSeq(doc, 1, selHead) \o f \o SubSeq(doc, selHead + 1, Len(doc))
       /\ selHead' = selHead + Len(f)
       /\ selAnchor' = selHead + Len(f)
       /\ treeComplete' = tc
       /\ update(TRUE, vp)
  /\ UNCHANGED << pc, idxVars, envVars >>
  /\ UNCHANGED appVars

\* the user deletes the whole document
ClearText ==
  /\ doc # <<>>
  /\ doc' = <<>>
  /\ selHead' = 0
  /\ selAnchor' = 0
  /\ treeComplete' = TRUE
  /\ update(TRUE, FALSE)
  /\ UNCHANGED << pc, idxVars, envVars >>
  /\ UNCHANGED appVars

\* a click or an arrow key: the selection collapses at a position
MoveCursor ==
  /\ \E p \in 0..Len(doc) :
       /\ selHead' = p
       /\ selAnchor' = p
  /\ UNCHANGED << doc, treeComplete, pc, idxVars, envVars >>
  /\ update(FALSE, FALSE)
  /\ UNCHANGED appVars

\* a drag or shift-arrow: the head moves away from the anchor
DragSelect ==
  /\ \E p \in 0..Len(doc) :
       /\ p # selAnchor
       /\ selHead' = p
  /\ UNCHANGED << doc, selAnchor, treeComplete, pc, idxVars, envVars >>
  /\ update(FALSE, FALSE)
  /\ UNCHANGED appVars

\* the view scrolls or is resized
Scroll ==
  /\ UNCHANGED << doc, selAnchor, selHead, treeComplete, pc, idxVars, envVars >>
  /\ update(FALSE, TRUE)
  /\ UNCHANGED appVars

\* the background parser reaches the end of the document and the language
\* extension dispatches its transaction of effects alone
ParseDone ==
  /\ ~treeComplete
  /\ treeComplete' = TRUE
  /\ UNCHANGED << doc, selAnchor, selHead, pc, idxVars, envVars >>
  /\ update(FALSE, FALSE)
  /\ UNCHANGED appVars

NextPlugin ==
  \/ TypeText
  \/ ClearText
  \/ MoveCursor
  \/ DragSelect
  \/ Scroll
  \/ ParseDone

SpecPlugin == InitPlugin /\ [][NextPlugin]_vars

\* C4: an update rebuilds the decorations exactly when the document changed,
\* the viewport changed, or the selection is collapsed and its head differs
\* from the stored cursor offset; an update that changes only a non-collapsed
\* selection rebuilds nothing and leaves cursorPos and decorations as they were.
C4_RebuildGuard ==
  [][ LET empty == selAnchor' = selHead'
      IN  /\ upd'.rebuilt <=>
               (upd'.docChanged \/ upd'.viewportChanged \/ (empty /\ selHead' # cursorPos))
          /\ upd'.rebuilt =>
               (cursorPos' = selHead'
                /\ decorations' = buildDecorations(doc', selHead', treeComplete'))
          /\ (~upd'.docChanged /\ ~upd'.viewportChanged /\ ~empty) =>
               (~upd'.rebuilt /\ cursorPos' = cursorPos /\ decorations' = decorations)
    ]_vars

\* a drag over a document with decorations was just processed without a rebuild
C4_Witness ==
  /\ pc = "idle"
  /\ selAnchor # selHead
  /\ selHead # cursorPos
  /\ ~upd.rebuilt /\ ~upd.docChanged /\ ~upd.viewportChanged
  /\ decorations # <<>>

\* ------------------------------------------------------------------------
\* The note index (NoteIndex, main.ts:437-960)
\* ------------------------------------------------------------------------
\* A file name, a title and a link target are texts.  A path is a record of
\* the directories below the notes directory and the file name.  The maps
\* hold entries by reference: a reference is the position of the entry in
\* the entries array the maps were rebuilt from.

UpperSeq == << "A","B","C","D","E","F","G","H","I","J","K","L","M",
               "N","O","P","Q","R","S","T","U","V","W","X","Y","Z" >>
LowerSeq == << "a","b","c","d","e","f","g","h","i","j","k","l","m",
               "n","o","p","q","r","s","t","u","v","w","x","y","z" >>

\* String.prototype.toLowerCase
toLowerCase(s) ==
  [i \in 1..Len(s) |->
     IF s[i] \in Upper THEN LowerSeq[CHOOSE k \in 1..26 : UpperSeq[k] = s[i]] ELSE s[i]]

\* String.prototype.trim
trim(s) ==
  LET keep == {k \in 1..Len(s) : ~IsSpace(s[k])}
  IN  IF keep = {} THEN << >> ELSE SubSeq(s, Min(keep), Max(keep))

\* filename.replace of a trailing .txt by nothing (main.ts:477, 582, 864, 880)
stripTxt(filename) ==
  IF Len(filename) >= 4 /\ StartsAt(filename, Len(filename) - 4, << ".", "t", "x", "t" >>)
  THEN Slice(filename, 0, Len(filename) - 4)
  ELSE filename

linkKey(filename) == toLowerCase(stripTxt(filename))

\* Map.prototype.get, with the value a missing key stands for
MapGet(m, k, none) == IF k \in DOMAIN m THEN m[k] ELSE none

\* Map.prototype.set
MapSet(m, k, v) == [x \in (DOMAIN m) \cup {k} |-> IF x = k THEN v ELSE m[x]]

\* Array.prototype.includes
includes(arr, x) == \E i \in 1..Len(arr) : arr[i] = x

\* the title pattern of parseNoteContent (main.ts:492) tried at the line start
\* p: whitespace (line breaks included), a #, whitespace, then the rest of
\* the line, of which there must be at least one character; the whitespace
\* after the # gives back what the rest of the line needs
titleAt(text, p) ==
  LET n == Len(text)
      solid(from) == {k \in from..(n - 1) : ~IsSpace(text[k + 1])}
      h == IF solid(p) = {} THEN n ELSE Min(solid(p))
      w == IF solid(h + 1) = {} THEN n ELSE Min(solid(h + 1))
      cands == {k \in (h + 2)..w : CharAt(text, k) \notin {"", "\n"}}
      start == Max(cands)
      brk == {k \in start..(n - 1) : text[k + 1] = "\n"}
  IN  IF CharAt(text, h) = "#" /\ cands # {}
      THEN [end |-> IF brk = {} THEN n ELSE Min(brk), start |-> start]
      ELSE NoMatch

\* text.match of the title pattern: the match at the first line start that has one
titleMatch(text) ==
  LET starts == {0} \cup {k + 1 : k \in {j \in 0..(Len(text) - 1) : text[j + 1] = "\n"}}
      hits == {titleAt(text, p) : p \in starts} \ {NoMatch}
  IN  IF hits = {} THEN NoMatch ELSE CHOOSE m \in hits : \A o \in hits : m.start <= o.start

\* WIKILINK_RE (main.ts:480)
WIKILINK_RE(text, i) == wikiAt(text, i)

\* MENTION_RE (main.ts:481)
MENTION_RE(text, i) ==
  IF /\ (i = 0 \/ IsSpace(CharAt(text, i - 1)))
     /\ CharAt(text, i) = "@"
     /\ CharAt(text, i + 1) \in Lower \cup Upper \cup {"_"}
  THEN [index |-> i, end |-> tagRunEnd(text, i + 2)]
  ELSE NoMatch

\* HASHTAG_RE (main.ts:482)
HASHTAG_RE(text, i) ==
  IF /\ (i = 0 \/ IsSpace(CharAt(text, i - 1)))
     /\ CharAt(text, i) = "#"
     /\ CharAt(text, i + 1) \in Lower \cup Upper
  THEN [index |-> i, end |-> tagRunEnd(text, i + 2)]
  ELSE NoMatch

\* the loop "if not included, push" over a list of candidates; an empty
\* candidate is dropped as the falsy target of main.ts:498
RECURSIVE pushDistinct(_, _)
pushDistinct(acc, cands) ==
  IF cands = << >> THEN acc
  ELSE pushDistinct(IF Head(cands) # << >> /\ ~includes(acc, Head(cands))
                    THEN Append(acc, Head(cands)) ELSE acc,
                    Tail(cands))

\* the link targets of a text in order of appearance, trimmed; the pattern
\* does not cross a line break, so the matches of the text are those of its lines
wikiTargets(text) ==
  LET ls == DocLines(text)
      ofLine(l) ==
        LET t == Slice(text, l.from, l.to)
            ms == MatchAll(t, LAMBDA i : WIKILINK_RE(t, i))
        IN  [k \in 1..Len(ms) |-> trim(Slice(t, ms[k].index + 2, ms[k].index + 2 + ms[k].content))]
  IN  Flatten([k \in 1..Len(ls) |-> ofLine(ls[k])])

\* the record parseNoteContent returns, of the title match tm and the
\* mention and hashtag matches ats and hts; title is the trimmed group, and
\* titled is FALSE for the null of a text without a title line
parsedContent(text, tm, ats, hts) ==
  [titled |-> tm.end >= 0,
   title |-> IF tm.end >= 0 THEN trim(Slice(text, tm.start, tm.end)) ELSE << >>,
   outgoingLinks |-> pushDistinct(<< >>, wikiTargets(text)),
   mentions |-> pushDistinct(<< >>, [k \in 1..Len(ats) |-> Slice(text, ats[k].index, ats[k].end)]),
   hashtags |-> pushDistinct(<< >>, [k \in 1..Len(hts) |-> Slice(text, hts[k].index, hts[k].end)])]

\* parseNoteContent (main.ts:491-520)
parseNoteContent(text) ==
  parsedContent(text, titleMatch(text),
                MatchAll(text, LAMBDA i : MENTION_RE(text, i)),
                MatchAll(text, LAMBDA i : HASHTAG_RE(text, i)))

\* parsed.title || filename without .txt: null and the empty title are falsy
titleOr(parsed, filename) ==
  IF parsed.titled /\ parsed.title # << >> THEN parsed.title ELSE stripTxt(filename)

\* the flags scanDirectory hands down (main.ts:563-568): set below a
\* directory of that name
childFlag(dirs, dirName) == \E i \in 1..Len(dirs) : dirs[i] = dirName

\* relPath.includes of "/" dirName "/" (main.ts:876-877), for a path below
\* the notes directory
pathIncludes(relPath, dirName) == \E i \in 1..Len(relPath.dirs) : relPath.dirs[i] = dirName

\* the entry scanDirectory makes of a file it read (main.ts:580-589)
scannedEntry(relPath, parsed) ==
  [filename |-> relPath.name,
   title |-> titleOr(parsed, relPath.name),
   relPath |-> relPath,
   isArchived |-> childFlag(relPath.dirs, "@Archive"),
   isTrashed |-> childFlag(relPath.dirs, "@Trash"),
   outgoingLinks |-> parsed.outgoingLinks,
   mentions |-> parsed.mentions,
   hashtags |-> parsed.hashtags]

\* scanDirectory on a file it read: parse, then make the entry (main.ts:579-581)
scanEntry(relPath, text) == scannedEntry(relPath, parseNoteContent(text))

\* the entry addEntry pushes (main.ts:876-887)
pushedEntry(relPath, filename, parsed) ==
  [filename |-> filename,
   title |-> titleOr(parsed, filename),
   relPath |-> relPath,
   isArchived |-> pathIncludes(relPath, "@Archive"),
   isTrashed |-> pathIncludes(relPath, "@Trash"),
   outgoingLinks |-> parsed.outgoingLinks,
   mentions |-> parsed.mentions,
   hashtags |-> parsed.hashtags]

\* addEntry: parse, then make the entry (main.ts:875)
newEntry(relPath, filename, content) ==
  pushedEntry(relPath, filename, parseNoteContent(content))

updatedEntryNoFallback(existing, content) ==
  [existing EXCEPT !.title = parseNoteContent(content).title,
                   !.outgoingLinks = parseNoteContent(content).outgoingLinks,
                   !.mentions = parseNoteContent(content).mentions,
                   !.hashtags = parseNoteContent(content).hashtags]

\* the entry updateEntry leaves (main.ts:864-867)
replacedEntry(existing, parsed) ==
  [existing EXCEPT !.title = titleOr(parsed, existing.filename),
                   !.outgoingLinks = parsed.outgoingLinks,
                   !.mentions = parsed.mentions,
                   !.hashtags = parsed.hashtags]

\* updateEntry: parse, then replace the fields (main.ts:863)
updatedEntry(existing, content) == replacedEntry(existing, parseNoteContent(content))

\* get the bucket of a key, make it when it is missing, and push on it
\* (main.ts:618-623 and 626-631)
addToBucket(m, k, v) == MapSet(m, k, Append(MapGet(m, k, << >>), v))

RECURSIVE addBacklinksCaseSensitive(_, _, _)
addBacklinksCaseSensitive(bl, links, relPath) ==
  IF links = << >> THEN bl
  ELSE addBacklinksCaseSensitive(addToBucket(bl, Head(links), relPath), Tail(links), relPath)

\* the inner loop of rebuildMaps (main.ts:624-632)
RECURSIVE addBacklinks(_, _, _)
addBacklinks(bl, links, relPath) ==
  IF links = << >> THEN bl
  ELSE addBacklinks(addToBucket(bl, toLowerCase(Head(links)), relPath), Tail(links), relPath)

\* the outer loop of rebuildMaps from entry i on (main.ts:614-633)
RECURSIVE rebuildFrom(_, _, _)
rebuildFrom(es, i, m) ==
  IF i > Len(es) THEN m
  ELSE rebuildFrom(es, i + 1,
         [byRelPath |-> MapSet(m.byRelPath, es[i].relPath, i),
          byLinkKey |-> addToBucket(m.byLinkKey, linkKey(es[i].filename), i),
          backlinkIndex |-> addBacklinks(m.backlinkIndex, es[i].outgoingLinks, es[i].relPath)])

\* rebuildMaps (main.ts:609-635): the three maps of an entries array
rebuildMaps(es) ==
  rebuildFrom(es, 1, [byRelPath |-> EmptyMap, byLinkKey |-> EmptyMap, backlinkIndex |-> EmptyMap])

\* the active and the archived entries among candidates c
activeOf(es, c) == SelectSeq(c, LAMBDA i : ~es[i].isArchived /\ ~es[i].isTrashed)

archivedOf(es, c) == SelectSeq(c, LAMBDA i : es[i].isArchived /\ ~es[i].isTrashed)

\* the entries whose title is key and that byFilename does not hold (main.ts:651-653)
byTitleOf(es, key, byFilename) ==
  SelectSeq([i \in 1..Len(es) |-> i],
            LAMBDA i : toLowerCase(es[i].title) = key /\ ~includes(byFilename, i))

firstOf(a, b, c, d) ==
  IF a # << >> THEN Head(a)
  ELSE IF b # << >> THEN Head(b)
  ELSE IF c # << >> THEN Head(c)
  ELSE IF d # << >> THEN Head(d)
  ELSE 0

pickArchivedAnyTrash(es, byFilename, byTitle) ==
  firstOf(activeOf(es, byFilename), activeOf(es, byTitle),
          SelectSeq(byFilename, LAMBDA i : es[i].isArchived),
          SelectSeq(byTitle, LAMBDA i : es[i].isArchived))

pickTitleFirst(es, byFilename, byTitle) ==
  firstOf(activeOf(es, byTitle), activeOf(es, byFilename),
          archivedOf(es, byFilename), archivedOf(es, byTitle))

\* the two loops of resolveLink (main.ts:655-665): active matches by
\* file name, then by title; archived matches by file name, then by title
pick(es, byFilename, byTitle) ==
  firstOf(activeOf(es, byFilename), activeOf(es, byTitle),
          archivedOf(es, byFilename), archivedOf(es, byTitle))

candidates(es, key, byFilename) == pick(es, byFilename, byTitleOf(es, key, byFilename))

resolveLinkArchivedAnyTrash(es, blk, title) ==
  pickArchivedAnyTrash(es, MapGet(blk, toLowerCase(title), << >>),
    byTitleOf(es, toLowerCase(title), MapGet(blk, toLowerCase(title), << >>)))

resolveLinkTitleFirst(es, blk, title) ==
  pickTitleFirst(es, MapGet(blk, toLowerCase(title), << >>),
    byTitleOf(es, toLowerCase(title), MapGet(blk, toLowerCase(title), << >>)))

\* resolveLink (main.ts:647-668) over the entries es and the link-key map
\* blk: the position of the entry returned, 0 for null
resolveLink(es, blk, title) ==
  candidates(es, toLowerCase(title), MapGet(blk, toLowerCase(title), << >>))

\* new Set of an array, spread again: the first occurrences in order
RECURSIVE setOrder(_, _)
setOrder(acc, arr) ==
  IF arr = << >> THEN acc
  ELSE setOrder(IF includes(acc, Head(arr)) THEN acc ELSE Append(acc, Head(arr)), Tail(arr))

\* the entries at the paths found (main.ts:689-691)
entriesAt(brp, found) == [k \in 1..Len(found) |-> brp[found[k]]]

\* the paths under the keys other than relPath, each once (main.ts:682-691)
linkingPaths(brp, bli, relPath, keys) ==
  entriesAt(brp,
    SelectSeq(setOrder(<< >>,
                SelectSeq(Flatten([k \in 1..Len(keys) |-> MapGet(bli, keys[k], << >>)]),
                          LAMBDA q : q # relPath)),
              LAMBDA q : q \in DOMAIN brp))

\* the keys of the entry: its file-name key and its title (main.ts:677-680)
backlinksOf(brp, bli, relPath, entry) ==
  linkingPaths(brp, bli, relPath,
               setOrder(<< >>, << linkKey(entry.filename), toLowerCase(entry.title) >>))

\* getBacklinks (main.ts:673-692) over the entries es, the path map brp and
\* the backlink map bli: the positions of the entries returned
getBacklinks(es, brp, bli, relPath) ==
  IF relPath \notin DOMAIN brp THEN << >>
  ELSE backlinksOf(brp, bli, relPath, es[brp[relPath]])

\* getEntry (main.ts:851-853): the position of the entry, 0 for null
getEntry(brp, relPath) == MapGet(brp, relPath, 0)

\* ---- the inputs of the index ----

Txt(base) == base \o << ".", "t", "x", "t" >>

\* the note files there can be, in the order a scan of the notes directory
\* lists them: the files of a directory, then its subdirectories
PathList ==
  << [dirs |-> << >>, name |-> Txt(<< "A" >>)],
     [dirs |-> << >>, name |-> Txt(<< "B" >>)],
     [dirs |-> << "@Archive" >>, name |-> Txt(<< "A" >>)],
     [dirs |-> << "@Archive" >>, name |-> Txt(<< "B" >>)],
     [dirs |-> << "@Archive", "@Trash" >>, name |-> Txt(<< "A" >>)],
     [dirs |-> << "@Trash" >>, name |-> Txt(<< "A" >>)] >>

Paths == {PathList[k] : k \in 1..Len(PathList)}

\* the contents a note file can have: a title line and no link, or no title
\* line and two links that differ in case and padding
IdxTexts ==
  { << "#", " ", "B" >>,
    << "[", "[", "b", "]", "]", "[", "[", " ", "B", " ", "]", "]" >> }

\* the link targets queried
LinkTargets == { << "a" >>, << "A" >>, << "b" >>, << "B" >> }

\* the position in PathList of the file scanned last, 0 before the first
lastListed(acc) ==
  IF acc = << >> THEN 0
  ELSE CHOOSE k \in 1..Len(PathList) : PathList[k] = acc[Len(acc)].relPath

\* ---- the operations of the index ----

InitIdx ==
  /\ doc = << >>
  /\ selAnchor = 0
  /\ selHead = 0
  /\ treeComplete = TRUE
  /\ cursorPos = 0
  /\ decorations = << >>
  /\ upd = NoUpdate
  /\ InitIndexVars
  /\ InitEnvVars
  /\ pc = "idle"
  /\ InitAppVars

\* the prepared operations when a build passes from one stage to the next:
\* those prepared before the build started are "scanned" while it runs and
\* "superseded" once it has completed
aged(rs, from, to) ==
  {IF r.age = from THEN [r EXCEPT !.age = to] ELSE r : r \in rs}

\* build() up to its await (main.ts:536-538): the directory scan starts
BuildStart ==
  /\ pc = "idle"
  /\ pc' = "scanning"
  /\ scanned' = << >>
  /\ requests' = aged(requests, "fresh", "scanned")
  /\ UNCHANGED << entries, byLinkKey, byRelPath, backlinkIndex >>
  /\ UNCHANGED << lpVars, fsys, reads, result >>
  /\ UNCHANGED appVars

\* scanDirectory reads the next file it can read and pushes its entry on
\* the array it will return (main.ts:573-596); files that are missing or
\* cannot be read are passed over
ScanFile ==
  /\ pc = "scanning"
  /\ Len(scanned) < MaxFiles
  /\ \E k \in 1..Len(PathList), text \in IdxTexts :
       /\ k > lastListed(scanned)
       /\ scanned' = Append(scanned, scanEntry(PathList[k], text))
  /\ UNCHANGED << entries, byLinkKey, byRelPath, backlinkIndex, pc >>
  /\ UNCHANGED << lpVars, envVars >>
  /\ UNCHANGED appVars

\* the index after an operation: the entries es and the maps m
setIndex(es, m) ==
  /\ entries' = es
  /\ byRelPath' = m.byRelPath
  /\ byLinkKey' = m.byLinkKey
  /\ backlinkIndex' = m.backlinkIndex

\* this.rebuildMaps() on the entries es
reindex(es) == setIndex(es, rebuildMaps(es))

buildCommitEntriesOnly(es) ==
  setIndex(es, [byRelPath |-> byRelPath, byLinkKey |-> byLinkKey,
                backlinkIndex |-> backlinkIndex])

\* what build() does when the scan has returned es (main.ts:538-539): the
\* assignment and rebuildMaps run with no await between them
buildCommit(es) == setIndex(es, rebuildMaps(es))

\* build() after its await
BuildFinish ==
  /\ pc = "scanning"
  /\ buildCommit(scanned)
  /\ scanned' = << >>
  /\ pc' = "idle"
  /\ requests' = aged(requests, "scanned", "superseded")
  /\ UNCHANGED << lpVars, fsys, reads, result >>
  /\ UNCHANGED appVars

\* addEntry(relPath, filename, content) (main.ts:874-889)
addEntry(relPath, filename, content) ==
  reindex(Append(entries, newEntry(relPath, filename, content)))

\* a call of addEntry for a note file
AddEntry ==
  /\ Len(entries) < MaxEntries
  /\ \E relPath \in Paths, content \in IdxTexts :
       addEntry(relPath, relPath.name, content)
  /\ UNCHANGED << scanned, pc >>
  /\ UNCHANGED << lpVars, envVars >>
  /\ UNCHANGED appVars

\* updateEntry(relPath, content) (main.ts:859-869)
updateEntry(relPath, content) ==
  IF relPath \notin DOMAIN byRelPath
  THEN UNCHANGED << entries, byLinkKey, byRelPath, backlinkIndex >>
  ELSE reindex([entries EXCEPT ![byRelPath[relPath]] =
                  updatedEntry(entries[byRelPath[relPath]], content)])

\* a call of updateEntry for a note file
UpdateEntry ==
  /\ \E relPath \in Paths, content \in IdxTexts : updateEntry(relPath, content)
  /\ UNCHANGED << scanned, pc >>
  /\ UNCHANGED << lpVars, envVars >>
  /\ UNCHANGED appVars

NextIdx ==
  \/ BuildStart
  \/ ScanFile
  \/ BuildFinish
  \/ AddEntry
  \/ UpdateEntry

SpecIdx == InitIdx /\ [][NextIdx]_vars

\* ---- single-entry operations prepared by a caller ----
\* A caller prepares a single-entry operation when it has the text of a note
\* in hand (after a save, or on creating a note) and makes the call later;
\* builds can start and complete in between.

\* the operations a caller prepares: on the first note file, with a text
\* that has links and no heading
PreparedOps ==
  {[op |-> o, relPath |-> PathList[1], content |-> t, age |-> "fresh"] :
     o \in {"updateEntry", "addEntry"},
     t \in {<< "[", "[", "b", "]", "]", "[", "[", " ", "B", " ", "]", "]" >>}}

\* the caller has the text of a note in hand and prepares the operation
Prepare ==
  /\ requests = {}
  /\ \E r \in PreparedOps : requests' = {r}
  /\ UNCHANGED << idxVars, pc, fsys, reads, result >>
  /\ UNCHANGED lpVars
  /\ UNCHANGED appVars

\* the caller makes the call it prepared
MakeCall ==
  /\ \E r \in requests :
       /\ requests' = requests \ {r}
       /\ IF r.op = "updateEntry"
          THEN updateEntry(r.relPath, r.content)
          ELSE /\ Len(entries) < MaxEntries
               /\ addEntry(r.relPath, r.relPath.name, r.content)
  /\ UNCHANGED << scanned, pc, fsys, reads, result >>
  /\ UNCHANGED lpVars
  /\ UNCHANGED appVars

NextSer ==
  \/ BuildStart
  \/ ScanFile
  \/ BuildFinish
  \/ Prepare
  \/ MakeCall

SpecSer == InitIdx /\ [][NextSer]_vars

\* ---- properties of the index ----

\* entry a has an outgoing link that matches entry b by file-name key or by
\* title, case-insensitively
linksTo(a, b) ==
  \E k \in 1..Len(a.outgoingLinks) :
    toLowerCase(a.outgoingLinks[k]) \in {linkKey(b.filename), toLowerCase(b.title)}

\* the elements of a set of numbers in ascending order
ascending(S) ==
  [k \in 1..Cardinality(S) |-> CHOOSE x \in S : Cardinality({y \in S : y < x}) = k - 1]

\* the entry the tiers of C6 select for a target: the first active entry
\* with that file-name key, else the first active entry with that title,
\* else the first archived one by key, else the first archived one by title,
\* else none (0); an archived entry is one that is archived and not in the trash
tierChoice(target) ==
  LET key == toLowerCase(target)
      act(i) == ~entries[i].isArchived /\ ~entries[i].isTrashed
      arc(i) == entries[i].isArchived /\ ~entries[i].isTrashed
      fn(i) == linkKey(entries[i].filename) = key
      ti(i) == toLowerCase(entries[i].title) = key
      all == 1..Len(entries)
      T1 == {i \in all : fn(i) /\ act(i)}
      T2 == {i \in all : ti(i) /\ act(i)}
      T3 == {i \in all : fn(i) /\ arc(i)}
      T4 == {i \in all : ti(i) /\ arc(i)}
  IN  IF T1 # {} THEN Min(T1)
      ELSE IF T2 # {} THEN Min(T2)
      ELSE IF T3 # {} THEN Min(T3)
      ELSE IF T4 # {} THEN Min(T4)
      ELSE 0

\* C6: resolveLink returns the first entry of the first tier that matches,
\* case-insensitively: active by file-name key, active by title, archived by
\* file-name key, archived by title; null when no tier matches.
C6_ResolveTierOrder ==
  \A target \in LinkTargets :
    resolveLink(entries, byLinkKey, target) = tierChoice(target)

\* an archived entry comes first in the index, an active entry with the same
\* file-name key second, and the link resolves to the active one
C6_Witness ==
  /\ Len(entries) = 2
  /\ entries[1].isArchived /\ ~entries[1].isTrashed
  /\ ~entries[2].isArchived /\ ~entries[2].isTrashed
  /\ linkKey(entries[1].filename) = << "a" >>
  /\ linkKey(entries[2].filename) = << "a" >>
  /\ resolveLink(entries, byLinkKey, << "A" >>) = 2

\* C7: after any sequence of build, addEntry and updateEntry, resolveLink
\* returns no entry that is in the trash, for any link target.
C7_NeverTrashed ==
  \A target \in LinkTargets :
    LET r == resolveLink(entries, byLinkKey, target)
    IN  r # 0 => ~entries[r].isTrashed

\* the only entry that matches a target is archived and in the trash, and
\* the target resolves to nothing
C7_Witness ==
  /\ \E i \in 1..Len(entries) :
       /\ entries[i].isArchived /\ entries[i].isTrashed
       /\ linkKey(entries[i].filename) = << "a" >>
  /\ \A i \in 1..Len(entries) : entries[i].isTrashed
  /\ resolveLink(entries, byLinkKey, << "a" >>) = 0

\* C8, for the index as it is: an entry that links to another entry is among
\* the other entry's backlinks
C8_Included ==
  \A i, j \in 1..Len(entries) :
    (i # j /\ linksTo(entries[i], entries[j]))
      => includes(getBacklinks(entries, byRelPath, backlinkIndex, entries[j].relPath), i)

\* C8, for a step: when an entry that linked to another entry is given a
\* text without that link, it is no longer among the other entry's backlinks
C8_Removed ==
  \A i, j \in 1..Len(entries) :
    (/\ i # j
     /\ Len(entries') = Len(entries)
     /\ entries'[j] = entries[j]
     /\ entries'[i].relPath = entries[i].relPath
     /\ linksTo(entries[i], entries[j])
     /\ ~linksTo(entries'[i], entries'[j]))
      => ~includes(getBacklinks(entries', byRelPath', backlinkIndex', entries'[j].relPath), i)

\* C8: if entry A has an outgoing link that matches entry B's file-name key
\* or title (A different from B), getBacklinks(B.path) includes A; after
\* updateEntry(A.path, text) with a text without that link it does not.
C8_BacklinkSymmetry == []C8_Included /\ [][C8_Removed]_vars

\* C9: getBacklinks(path) returns exactly the entries, other than the entry
\* at path, that have an outgoing link equal to that entry's file-name key
\* or title, each once; for a path that is not indexed it returns nothing.
C9_BacklinksExact ==
  \A p \in Paths :
    LET r == getBacklinks(entries, byRelPath, backlinkIndex, p)
        e == getEntry(byRelPath, p)
    IN  IF \A i \in 1..Len(entries) : entries[i].relPath # p
        THEN r = << >>
        ELSE /\ e # 0
             /\ \A k, l \in 1..Len(r) : k # l => r[k] # r[l]
             /\ {r[k] : k \in 1..Len(r)}
                  = {i \in 1..Len(entries) : i # e /\ linksTo(entries[i], entries[e])}

\* the maps are those of the entries: every path maps to the last entry at
\* it, every link key to the entries with that key in order, every backlink
\* key to the paths of the entries that link to it, in order
IndexComplete ==
  LET all == 1..Len(entries)
      linkPaths(i, k) ==
        LET ls == entries[i].outgoingLinks
        IN  [n \in 1..Cardinality({x \in 1..Len(ls) : toLowerCase(ls[x]) = k})
               |-> entries[i].relPath]
  IN  /\ DOMAIN byRelPath = {entries[i].relPath : i \in all}
      /\ \A p \in DOMAIN byRelPath :
           byRelPath[p] = Max({i \in all : entries[i].relPath = p})
      /\ DOMAIN byLinkKey = {linkKey(entries[i].filename) : i \in all}
      /\ \A k \in DOMAIN byLinkKey :
           byLinkKey[k] = ascending({i \in all : linkKey(entries[i].filename) = k})
      /\ DOMAIN backlinkIndex =
           UNION {{toLowerCase(entries[i].outgoingLinks[x]) : x \in 1..Len(entries[i].outgoingLinks)}
                  : i \in all}
      /\ \A k \in DOMAIN backlinkIndex :
           backlinkIndex[k] = Flatten([i \in all |-> linkPaths(i, k)])

\* while the scan of a build is in flight its entries stay in the array of
\* the scan, and what the build publishes is the whole result of the scan
ScanIsPrivate ==
  /\ (pc = "scanning" /\ pc' = "scanning" /\ scanned' # scanned)
       => UNCHANGED << entries, byLinkKey, byRelPath, backlinkIndex >>
  /\ (pc = "scanning" /\ pc' = "idle") => entries' = scanned

\* C10: wherever a query can run while build() is in flight, the entries and
\* the maps are one complete index: the one before the rebuild, or the one after.
C10_NoPartialIndex == []IndexComplete /\ [][ScanIsPrivate]_vars

\* a build in flight has scanned a file that the index, which is not empty,
\* does not hold
C10_Witness ==
  /\ pc = "scanning"
  /\ Len(scanned) >= 1
  /\ Len(entries) >= 1
  /\ \A i \in 1..Len(entries) : entries[i] # scanned[1]
  /\ byRelPath # EmptyMap

\* ---- scanDirectory with its concurrent reads (main.ts:543-607) ----
\* build() calls scanDirectory on the notes directory.  Every call lists its
\* directory, starts the reads of all its note files at once and waits for
\* all of them, then starts the scans of all its subdirectories at once and
\* waits for all of them.  The reads and the scans complete in any order.

\* the directories there are, in the order the listings give them: the notes
\* directory, then its subdirectories
DirList == << << >>, << "@Archive" >>, << "@Archive", "@Trash" >>, << "@Trash" >> >>

\* a promise that has not settled yet ("pending"), that resolved to null
\* ("null") or that was rejected ("rejected")
NoEntry(kind) == [none |-> kind]

\* the files array of the call for directory d (main.ts:558-570): the note
\* files the listing of d holds, in listing order, as positions in PathList
filesOf(fs, d) ==
  SelectSeq([k \in 1..Len(PathList) |-> k],
            LAMBDA k : k \in DOMAIN fs.files /\ PathList[k].dirs = DirList[d])

\* the subdirs array of the call for directory d (main.ts:561-567), as
\* positions in DirList
subdirsOf(d) ==
  SelectSeq([j \in 1..Len(DirList) |-> j],
            LAMBDA j : /\ Len(DirList[j]) = Len(DirList[d]) + 1
                       /\ SubSeq(DirList[j], 1, Len(DirList[d])) = DirList[d])

fileResultNoCatch(fs, k) ==
  IF fs.files[k].ok THEN scanEntry(PathList[k], fs.files[k].text) ELSE NoEntry("rejected")

\* what the callback of files.map resolves to for file k (main.ts:574-592):
\* the entry, or null when readTextFile throws
fileResult(fs, k) ==
  IF fs.files[k].ok THEN scanEntry(PathList[k], fs.files[k].text) ELSE NoEntry("null")

settleInArrivalOrder(results, i, v) ==
  [results EXCEPT ![Min({j \in 1..Len(results) : results[j] = NoEntry("pending")})] = v]

\* Promise.all (main.ts:573): the value of the i-th promise is the i-th
\* element of the array, whenever the promise settles
settle(results, i, v) == [results EXCEPT ![i] = v]

\* a scanDirectory call that has not been made
IdleScan == [stage |-> "idle", files |-> << >>, waiting |-> {}, results |-> << >>, out |-> << >>]

\* the file systems a scan can meet: every directory can or cannot be listed,
\* up to MaxFiles note files exist, each of which can or cannot be read
FileSystems ==
  {[dirs |-> ds, files |-> fm] :
     ds \in [1..Len(DirList) -> BOOLEAN],
     fm \in UNION {[S -> {[ok |-> FALSE, text |-> << >>],
                          [ok |-> TRUE, text |-> << "#", " ", "B" >>]}] :
                     S \in {T \in SUBSET (1..Len(PathList)) : Cardinality(T) <= MaxFiles}}}

InitScan ==
  /\ doc = << >>
  /\ selAnchor = 0
  /\ selHead = 0
  /\ treeComplete = TRUE
  /\ cursorPos = 0
  /\ decorations = << >>
  /\ upd = NoUpdate
  /\ InitIndexVars
  /\ fsys \in FileSystems
  /\ reads = [d \in 1..Len(DirList) |-> IdleScan]
  /\ result = << >>
  /\ requests = {}
  /\ pc = "idle"
  /\ InitAppVars

\* build() up to its await (main.ts:536-538): scanDirectory is called on the
\* notes directory and runs up to its readDir
ScanBegin ==
  /\ pc = "idle"
  /\ pc' = "scanning"
  /\ reads' = [d \in 1..Len(DirList) |->
                 IF d = 1 THEN [IdleScan EXCEPT !.stage = "listing"] ELSE IdleScan]
  /\ UNCHANGED << idxVars, fsys, result, requests >>
  /\ UNCHANGED lpVars
  /\ UNCHANGED appVars

\* readDir settles (main.ts:548-553): a directory that cannot be listed gives
\* no entries; else the reads of all note files of the listing start
\* (main.ts:558-573)
ListDir ==
  /\ \E d \in 1..Len(DirList) :
       /\ reads[d].stage = "listing"
       /\ reads' = [reads EXCEPT ![d] =
            IF ~fsys.dirs[d]
            THEN [IdleScan EXCEPT !.stage = "done"]
            ELSE [stage |-> "files",
                  files |-> filesOf(fsys, d),
                  waiting |-> 1..Len(filesOf(fsys, d)),
                  results |-> [i \in 1..Len(filesOf(fsys, d)) |-> NoEntry("pending")],
                  out |-> << >>]]
  /\ UNCHANGED << idxVars, pc, fsys, result, requests >>
  /\ UNCHANGED lpVars
  /\ UNCHANGED appVars

\* one of the reads in flight settles (main.ts:574-592)
ReadFile ==
  /\ \E d \in 1..Len(DirList) :
       /\ reads[d].stage = "files"
       /\ \E i \in reads[d].waiting :
            reads' = [reads EXCEPT
              ![d].waiting = @ \ {i},
              ![d].results = settle(@, i, fileResult(fsys, reads[d].files[i]))]
  /\ UNCHANGED << idxVars, pc, fsys, result, requests >>
  /\ UNCHANGED lpVars
  /\ UNCHANGED appVars

\* all reads of a directory have settled (main.ts:594-602): a rejected read
\* rejects the call; else the results that are not null are pushed in the
\* order of the array and the scans of all subdirectories start
CollectFiles ==
  /\ \E d \in 1..Len(DirList) :
       /\ reads[d].stage = "files"
       /\ reads[d].waiting = {}
       /\ reads' =
            IF \E i \in 1..Len(reads[d].results) : reads[d].results[i] = NoEntry("rejected")
            THEN [reads EXCEPT ![d].stage = "rejected"]
            ELSE [j \in 1..Len(DirList) |->
                    IF j = d
                    THEN [reads[d] EXCEPT
                            !.stage = "subdirs",
                            !.out = SelectSeq(reads[d].results, LAMBDA r : r # NoEntry("null"))]
                    ELSE IF includes(subdirsOf(d), j)
                    THEN [IdleScan EXCEPT !.stage = "listing"]
                    ELSE reads[j]]
  /\ UNCHANGED << idxVars, pc, fsys, result, requests >>
  /\ UNCHANGED lpVars
  /\ UNCHANGED appVars

\* all scans of the subdirectories have settled (main.ts:600-606): their
\* entries are pushed in the order of the subdirs array and the call returns
CollectSubdirs ==
  /\ \E d \in 1..Len(DirList) :
       /\ reads[d].stage = "subdirs"
       /\ \A k \in 1..Len(subdirsOf(d)) : reads[subdirsOf(d)[k]].stage \in {"done", "rejected"}
       /\ reads' = [reads EXCEPT ![d] =
            IF \E k \in 1..Len(subdirsOf(d)) : reads[subdirsOf(d)[k]].stage = "rejected"
            THEN [@ EXCEPT !.stage = "rejected"]
            ELSE [@ EXCEPT
                    !.stage = "done",
                    !.out = @ \o Flatten([k \in 1..Len(subdirsOf(d)) |-> reads[subdirsOf(d)[k]].out])]]
  /\ UNCHANGED << idxVars, pc, fsys, result, requests >>
  /\ UNCHANGED lpVars
  /\ UNCHANGED appVars

\* build() after its await (main.ts:538-540): the result of the scan is
\* assigned and the maps are rebuilt; a rejected scan makes build() throw
ScanCommit ==
  /\ pc = "scanning"
  /\ reads[1].stage \in {"done", "rejected"}
  /\ IF reads[1].stage = "done"
     THEN /\ buildCommit(reads[1].out)
          /\ pc' = "idle"
     ELSE /\ UNCHANGED << entries, byLinkKey, byRelPath, backlinkIndex >>
          /\ pc' = "failed"
  /\ reads' = [d \in 1..Len(DirList) |-> IdleScan]
  /\ UNCHANGED << scanned, fsys, result, requests >>
  /\ UNCHANGED lpVars
  /\ UNCHANGED appVars

NextScan ==
  \/ ScanBegin
  \/ ListDir
  \/ ReadFile
  \/ CollectFiles
  \/ CollectSubdirs
  \/ ScanCommit

SpecScan == InitScan /\ [][NextScan]_vars

\* ---- the queries on the index (main.ts:699-853) ----
\* the place of a character in the alphabet, whatever its case; 0 for a
\* character that is no letter (punctuation sorts before the letters)
charRank(c) ==
  IF c \in Lower THEN CHOOSE k \in 1..26 : LowerSeq[k] = c
  ELSE IF c \in Upper THEN CHOOSE k \in 1..26 : UpperSeq[k] = c
  ELSE 0

\* a.localeCompare(b, undefined, { sensitivity: 'base' }) (main.ts:790, 845):
\* the letters are compared in alphabetical order whatever their case, and a
\* string sorts after its proper prefixes
localeCompareBase(a, b) ==
  LET diff == {i \in 1..Min({Len(a), Len(b)}) : charRank(a[i]) # charRank(b[i])}
  IN  IF diff # {}
      THEN (IF charRank(a[Min(diff)]) < charRank(b[Min(diff)]) THEN -1 ELSE 1)
      ELSE IF Len(a) < Len(b) THEN -1
      ELSE IF Len(a) > Len(b) THEN 1
      ELSE 0

\* a.localeCompare(b) (main.ts:731, 950): as above, and of two strings that
\* differ in case only the one with the lowercase letter at the first
\* difference sorts first
localeCompare(a, b) ==
  LET diff == {i \in 1..Min({Len(a), Len(b)}) : a[i] # b[i]}
  IN  IF localeCompareBase(a, b) # 0 THEN localeCompareBase(a, b)
      ELSE IF diff = {} THEN 0
      ELSE IF a[Min(diff)] \in Lower THEN -1
      ELSE 1

\* Array.prototype.sort with a comparator that is a consistent ordering: the
\* sort is stable, so an element comes after those that compare less and
\* after those before it that compare equal
stableSort(arr, cmp(_, _)) ==
  LET place(i) ==
        Cardinality({j \in 1..Len(arr) :
                       \/ cmp(arr[j], arr[i]) < 0
                       \/ cmp(arr[j], arr[i]) = 0 /\ j < i})
  IN  [k \in 1..Len(arr) |-> arr[CHOOSE i \in 1..Len(arr) : place(i) = k - 1]]

\* String.prototype.includes
strIncludes(s, q) == \E k \in 0..Len(s) : StartsAt(s, k, q)

searchCompareNoArchive(a, b, q) ==
  IF (toLowerCase(a.title) = q \/ linkKey(a.filename) = q)
       /\ ~(toLowerCase(b.title) = q \/ linkKey(b.filename) = q) THEN -1
  ELSE IF ~(toLowerCase(a.title) = q \/ linkKey(a.filename) = q)
       /\ (toLowerCase(b.title) = q \/ linkKey(b.filename) = q) THEN 1
  ELSE IF (StartsAt(toLowerCase(a.title), 0, q) \/ StartsAt(linkKey(a.filename), 0, q))
       /\ ~(StartsAt(toLowerCase(b.title), 0, q) \/ StartsAt(linkKey(b.filename), 0, q)) THEN -1
  ELSE IF ~(StartsAt(toLowerCase(a.title), 0, q) \/ StartsAt(linkKey(a.filename), 0, q))
       /\ (StartsAt(toLowerCase(b.title), 0, q) \/ StartsAt(linkKey(b.filename), 0, q)) THEN 1
  ELSE localeCompare(a.title, b.title)

\* the comparator of searchNotes (main.ts:709-732)
searchCompare(a, b, q) ==
  IF (toLowerCase(a.title) = q \/ linkKey(a.filename) = q)
       /\ ~(toLowerCase(b.title) = q \/ linkKey(b.filename) = q) THEN -1
  ELSE IF ~(toLowerCase(a.title) = q \/ linkKey(a.filename) = q)
       /\ (toLowerCase(b.title) = q \/ linkKey(b.filename) = q) THEN 1
  ELSE IF (StartsAt(toLowerCase(a.title), 0, q) \/ StartsAt(linkKey(a.filename), 0, q))
       /\ ~(StartsAt(toLowerCase(b.title), 0, q) \/ StartsAt(linkKey(b.filename), 0, q)) THEN -1
  ELSE IF ~(StartsAt(toLowerCase(a.title), 0, q) \/ StartsAt(linkKey(a.filename), 0, q))
       /\ (StartsAt(toLowerCase(b.title), 0, q) \/ StartsAt(linkKey(b.filename), 0, q)) THEN 1
  ELSE IF a.isArchived /\ ~b.isArchived THEN 1
  ELSE IF ~a.isArchived /\ b.isArchived THEN -1
  ELSE localeCompare(a.title, b.title)

\* the entries searchNotes keeps for the lowercased query q (main.ts:703-708)
searchMatches(es, q) ==
  SelectSeq(SelectSeq(es, LAMBDA e : ~e.isTrashed),
            LAMBDA e : strIncludes(toLowerCase(e.title), q) \/ strIncludes(linkKey(e.filename), q))

\* searchNotes (main.ts:699-733)
searchNotes(es, query) ==
  IF query = << >> THEN << >>
  ELSE stableSort(searchMatches(es, toLowerCase(query)),
                  LAMBDA a, b : searchCompare(a, b, toLowerCase(query)))

\* a Map that is iterated: its keys in the order of their first set, each
\* with its value.  Map.prototype.get, with the value a missing key stands for
omGet(om, k, none) ==
  IF \E n \in 1..Len(om) : om[n].key = k
  THEN om[CHOOSE n \in 1..Len(om) : om[n].key = k].val
  ELSE none

\* Map.prototype.set: a key that is set again keeps its place
omSet(om, k, v) ==
  IF \E n \in 1..Len(om) : om[n].key = k
  THEN [n \in 1..Len(om) |-> IF om[n].key = k THEN [key |-> k, val |-> v] ELSE om[n]]
  ELSE Append(om, [key |-> k, val |-> v])

\* what the loop body does to the bucket of a mention (main.ts:762-771): an
\* active entry counts for the bucket and for the casing, an archived one
\* only makes the casing known
mentionTally(bucket, form, archived) ==
  IF ~archived
  THEN [forms |-> omSet(bucket.forms, form, omGet(bucket.forms, form, 0) + 1),
        active |-> bucket.active + 1, total |-> bucket.total + 1]
  ELSE [forms |-> IF omGet(bucket.forms, form, -1) = -1
                  THEN omSet(bucket.forms, form, 0) ELSE bucket.forms,
        active |-> bucket.active, total |-> bucket.total + 1]

RECURSIVE aggMentionsNoSeen(_, _, _, _, _)
aggMentionsNoSeen(es, i, j, seen, agg) ==
  IF i > Len(es) THEN agg
  ELSE IF es[i].isTrashed \/ j > Len(es[i].mentions)
  THEN aggMentionsNoSeen(es, i + 1, 1, {}, agg)
  ELSE aggMentionsNoSeen(es, i, j + 1, seen \cup {toLowerCase(es[i].mentions[j])},
                   omSet(agg, toLowerCase(es[i].mentions[j]),
                         mentionTally(omGet(agg, toLowerCase(es[i].mentions[j]),
                                          [forms |-> << >>, active |-> 0, total |-> 0]),
                                    es[i].mentions[j], es[i].isArchived)))

\* the loops of getMentionsRanked (main.ts:749-775) from the mention j of the
\* entry i on: trashed entries are skipped, and so is a mention whose
\* lowercase form the entry has had before
RECURSIVE aggMentions(_, _, _, _, _)
aggMentions(es, i, j, seen, agg) ==
  IF i > Len(es) THEN agg
  ELSE IF es[i].isTrashed \/ j > Len(es[i].mentions)
  THEN aggMentions(es, i + 1, 1, {}, agg)
  ELSE IF toLowerCase(es[i].mentions[j]) \in seen
  THEN aggMentions(es, i, j + 1, seen, agg)
  ELSE aggMentions(es, i, j + 1, seen \cup {toLowerCase(es[i].mentions[j])},
                   omSet(agg, toLowerCase(es[i].mentions[j]),
                         mentionTally(omGet(agg, toLowerCase(es[i].mentions[j]),
                                          [forms |-> << >>, active |-> 0, total |-> 0]),
                                    es[i].mentions[j], es[i].isArchived)))

\* the group of a bucket (main.ts:777-788): its canonical form is the first
\* casing with the greatest count
mentionGroup(bucket) ==
  [mention |-> bucket.forms[Min({k \in 1..Len(bucket.forms) :
                                \A o \in 1..Len(bucket.forms) :
                                  bucket.forms[o].val <= bucket.forms[k].val})].key,
   count |-> bucket.active,
   archiveOnly |-> bucket.active = 0]

\* getMentionsRanked (main.ts:749-793)
getMentionsRanked(es) ==
  stableSort([k \in 1..Len(aggMentions(es, 1, 1, {}, << >>)) |->
                mentionGroup(aggMentions(es, 1, 1, {}, << >>)[k].val)],
             LAMBDA a, b : IF a.archiveOnly # b.archiveOnly
                           THEN (IF a.archiveOnly THEN 1 ELSE -1)
                           ELSE localeCompareBase(a.mention, b.mention))

\* what the loop body does to the bucket of a hashtag (main.ts:822-828): an
\* active entry counts for the bucket and for the casing, an archived one
\* only makes the casing known
hashtagTally(bucket, form, archived) ==
  IF ~archived
  THEN [forms |-> omSet(bucket.forms, form, omGet(bucket.forms, form, 0) + 1),
        active |-> bucket.active + 1]
  ELSE [forms |-> IF omGet(bucket.forms, form, -1) = -1
                  THEN omSet(bucket.forms, form, 0) ELSE bucket.forms,
        active |-> bucket.active]

\* the loops of getHashtagsRanked (main.ts:808-831) from the hashtag j of the
\* entry i on: trashed entries are skipped, and so is a hashtag whose
\* lowercase form the entry has had before
RECURSIVE aggHashtags(_, _, _, _, _)
aggHashtags(es, i, j, seen, agg) ==
  IF i > Len(es) THEN agg
  ELSE IF es[i].isTrashed \/ j > Len(es[i].hashtags)
  THEN aggHashtags(es, i + 1, 1, {}, agg)
  ELSE IF toLowerCase(es[i].hashtags[j]) \in seen
  THEN aggHashtags(es, i, j + 1, seen, agg)
  ELSE aggHashtags(es, i, j + 1, seen \cup {toLowerCase(es[i].hashtags[j])},
                   omSet(agg, toLowerCase(es[i].hashtags[j]),
                         hashtagTally(omGet(agg, toLowerCase(es[i].hashtags[j]),
                                          [forms |-> << >>, active |-> 0]),
                                    es[i].hashtags[j], es[i].isArchived)))

\* the group of a bucket (main.ts:833-843): its canonical form is the first
\* casing with the greatest count
hashtagGroup(bucket) ==
  [hashtag |-> bucket.forms[Min({k \in 1..Len(bucket.forms) :
                                \A o \in 1..Len(bucket.forms) :
                                  bucket.forms[o].val <= bucket.forms[k].val})].key,
   count |-> bucket.active,
   archiveOnly |-> bucket.active = 0]

getHashtagsRankedAlphabetical(es) ==
  stableSort([k \in 1..Len(aggHashtags(es, 1, 1, {}, << >>)) |->
                hashtagGroup(aggHashtags(es, 1, 1, {}, << >>)[k].val)],
             LAMBDA a, b : localeCompareBase(a.hashtag, b.hashtag))

\* getHashtagsRanked (main.ts:808-848)
getHashtagsRanked(es) ==
  stableSort([k \in 1..Len(aggHashtags(es, 1, 1, {}, << >>)) |->
                hashtagGroup(aggHashtags(es, 1, 1, {}, << >>)[k].val)],
             LAMBDA a, b : IF a.archiveOnly # b.archiveOnly
                           THEN (IF a.archiveOnly THEN 1 ELSE -1)
                           ELSE localeCompareBase(a.hashtag, b.hashtag))

\* the note texts of the queries: titles that match a query exactly, as a
\* prefix and inside, and mentions and hashtags in several casings
QueryTexts ==
  { << "#", " ", "B" >>,
    << "#", " ", "a", "b", "\n", "@", "a", " ", "@", "A" >>,
    << "@", "A", " ", "#", "b" >>,
    << "#", "a", " ", "#", "A" >>,
    << "#", " ", "B", "a", "\n", "#", "A" >> }

\* the indexes the queries are made on: those that builds and addEntry
\* calls leave, of up to MaxEntries entries
QueryIndexes ==
  UNION {[1..n -> {newEntry(relPath, relPath.name, t) : relPath \in Paths, t \in QueryTexts}] :
           n \in 0..MaxEntries}

\* result holds the last call made on the index and the value it returned
InitQuery ==
  /\ doc = << >>
  /\ selAnchor = 0
  /\ selHead = 0
  /\ treeComplete = TRUE
  /\ cursorPos = 0
  /\ decorations = << >>
  /\ upd = NoUpdate
  /\ scanned = << >>
  /\ pc = "idle"
  /\ entries \in QueryIndexes
  /\ byRelPath = rebuildMaps(entries).byRelPath
  /\ byLinkKey = rebuildMaps(entries).byLinkKey
  /\ backlinkIndex = rebuildMaps(entries).backlinkIndex
  /\ fsys = << >>
  /\ reads = << >>
  /\ result = [call |-> "none", args |-> << >>, value |-> << >>]
  /\ requests = {}
  /\ InitAppVars

\* a call of updateEntry (main.ts:859-869)
CallUpdateEntry ==
  /\ \E relPath \in Paths, content \in QueryTexts :
       /\ updateEntry(relPath, content)
       /\ result' = [call |-> "updateEntry", args |-> << relPath, content >>, value |-> << >>]
  /\ UNCHANGED << scanned, pc, fsys, reads, requests >>
  /\ UNCHANGED lpVars
  /\ UNCHANGED appVars

NextUpdate == CallUpdateEntry

SpecUpdate == InitQuery /\ [][NextUpdate]_vars

\* the queries made: none, and some that titles and filenames match exactly,
\* as a prefix, inside and not at all
Queries == { << >>, << "a" >>, << "B" >>, << "a", "b" >> }

\* a call of searchNotes (main.ts:699-733)
CallSearchNotes ==
  /\ \E query \in Queries :
       result' = [call |-> "searchNotes", args |-> << query >>, value |-> searchNotes(entries, query)]
  /\ UNCHANGED << idxVars, pc, fsys, reads, requests >>
  /\ UNCHANGED lpVars
  /\ UNCHANGED appVars

\* a call of getMentionsRanked (main.ts:749-793)
CallGetMentionsRanked ==
  /\ result' = [call |-> "getMentionsRanked", args |-> << >>, value |-> getMentionsRanked(entries)]
  /\ UNCHANGED << idxVars, pc, fsys, reads, requests >>
  /\ UNCHANGED lpVars
  /\ UNCHANGED appVars

\* a call of getHashtagsRanked (main.ts:808-848)
CallGetHashtagsRanked ==
  /\ result' = [call |-> "getHashtagsRanked", args |-> << >>, value |-> getHashtagsRanked(entries)]
  /\ UNCHANGED << idxVars, pc, fsys, reads, requests >>
  /\ UNCHANGED lpVars
  /\ UNCHANGED appVars

NextQuery ==
  \/ CallSearchNotes
  \/ CallGetMentionsRanked
  \/ CallGetHashtagsRanked

SpecQuery == InitQuery /\ [][NextQuery]_vars

\* ---- searchMention, searchHashtag and searchLines (main.ts:896-952) ----
tokenAnywhere(line, k, token) ==
  /\ k + Len(token) <= Len(line)
  /\ toLowerCase(Slice(line, k, k + Len(token))) = toLowerCase(token)
  /\ CharAt(line, k + Len(token)) \notin Lower \cup Upper \cup Digit \cup {"_", "/", "-", "&"}

\* the pattern of searchMention and searchHashtag (main.ts:898-901, 912-915)
\* at offset k of a line: the line start or a whitespace character before,
\* the token whatever its case, and no tag character after
tokenAt(line, k, token) ==
  /\ k = 0 \/ IsSpace(CharAt(line, k - 1))
  /\ k + Len(token) <= Len(line)
  /\ toLowerCase(Slice(line, k, k + Len(token))) = toLowerCase(token)
  /\ CharAt(line, k + Len(token)) \notin Lower \cup Upper \cup Digit \cup {"_", "/", "-", "&"}

\* the two patterns of isDone (main.ts:932): whitespace, a - or a +, a
\* space, [x] or [-], and a space
isDoneLine(line) ==
  \E k \in 0..Len(line) :
    /\ \A i \in 1..k : IsSpace(line[i])
    /\ CharAt(line, k) \in {"-", "+"}
    /\ \/ StartsAt(line, k + 1, << " ", "[", "x", "]", " " >>)
       \/ StartsAt(line, k + 1, << " ", "[", "-", "]", " " >>)

\* the lines array of searchLines (main.ts:928-936): the lines of the text
\* that the pattern matches, with their numbers
matchingLines(text, token) ==
  LET ls == DocLines(text)
      hit == SelectSeq([n \in 1..Len(ls) |-> n],
                       LAMBDA n : \E k \in 0..(ls[n].to - ls[n].from) :
                                    tokenAt(Slice(text, ls[n].from, ls[n].to), k, token))
  IN  [n \in 1..Len(hit) |->
         [lineNum |-> hit[n],
          text |-> Slice(text, ls[hit[n]].from, ls[hit[n]].to),
          isDone |-> isDoneLine(Slice(text, ls[hit[n]].from, ls[hit[n]].to))]]

pushGroupOfAnyFile(results, entry, file, token) ==
  IF file.ok THEN Append(results, [entry |-> entry, lines |-> matchingLines(file.text, token)])
  ELSE results

\* the callback of candidates.map once its read has settled (main.ts:927-942):
\* a file that was read and has matching lines pushes its group, a file that
\* could not be read pushes nothing
pushGroup(results, entry, file, token) ==
  IF file.ok /\ matchingLines(file.text, token) # << >>
  THEN Append(results, [entry |-> entry, lines |-> matchingLines(file.text, token)])
  ELSE results

searchResultCompareTitleOnly(a, b) == localeCompare(a.entry.title, b.entry.title)

\* the comparator of searchLines (main.ts:946-949)
searchResultCompare(a, b) ==
  IF a.entry.isArchived # b.entry.isArchived
  THEN (IF a.entry.isArchived THEN 1 ELSE -1)
  ELSE localeCompare(a.entry.title, b.entry.title)

\* the candidates of searchMention (main.ts:903-905)
mentionCandidates(es, mention) ==
  SelectSeq(es, LAMBDA e : /\ ~e.isTrashed
                           /\ \E j \in 1..Len(e.mentions) :
                                toLowerCase(e.mentions[j]) = toLowerCase(mention))

\* the candidates of searchHashtag (main.ts:917-919)
hashtagCandidates(es, hashtag) ==
  SelectSeq(es, LAMBDA e : /\ ~e.isTrashed
                           /\ \E j \in 1..Len(e.hashtags) :
                                toLowerCase(e.hashtags[j]) = toLowerCase(hashtag))

\* the texts the files hold when they are searched, which need not be those
\* that were indexed: lines that match a token, one of them a done task, and
\* a line on which a longer tag starts with the token
SearchFileTexts ==
  { << "@", "A", " ", "#", "a", "\n", "-", " ", "[", "x", "]", " ", "@", "a" >>,
    << "@", "a", "b", " ", "#", "a", "b" >> }

SearchTokens == { << "@", "A" >>, << "#", "a" >> }

\* no search in flight
NoSearch == [call |-> "none", token |-> << >>, cands |-> << >>, waiting |-> {}, results |-> << >>]

\* the search just called: the reads of all candidates are in flight
\* (main.ts:927)
searchStarted(call, token, cands) ==
  [call |-> call, token |-> token, cands |-> cands, waiting |-> 1..Len(cands), results |-> << >>]

InitSearch ==
  /\ doc = << >>
  /\ selAnchor = 0
  /\ selHead = 0
  /\ treeComplete = TRUE
  /\ cursorPos = 0
  /\ decorations = << >>
  /\ upd = NoUpdate
  /\ scanned = << >>
  /\ pc = "idle"
  /\ entries \in QueryIndexes
  /\ byRelPath = rebuildMaps(entries).byRelPath
  /\ byLinkKey = rebuildMaps(entries).byLinkKey
  /\ backlinkIndex = rebuildMaps(entries).backlinkIndex
  /\ fsys \in [{entries[i].relPath : i \in 1..Len(entries)} ->
                 {[ok |-> FALSE, text |-> << >>]} \cup {[ok |-> TRUE, text |-> t] : t \in SearchFileTexts}]
  /\ reads = NoSearch
  /\ result = [call |-> "none", args |-> << >>, value |-> << >>]
  /\ requests = {}
  /\ InitAppVars

\* searchMention up to the await of searchLines (main.ts:896-908, 924-927)
CallSearchMention ==
  /\ reads.call = "none"
  /\ \E mention \in SearchTokens :
       reads' = searchStarted("searchMention", mention, mentionCandidates(entries, mention))
  /\ UNCHANGED << idxVars, pc, fsys, result, requests >>
  /\ UNCHANGED lpVars
  /\ UNCHANGED appVars

\* searchHashtag up to the await of searchLines (main.ts:910-922, 924-927)
CallSearchHashtag ==
  /\ reads.call = "none"
  /\ \E hashtag \in SearchTokens :
       reads' = searchStarted("searchHashtag", hashtag, hashtagCandidates(entries, hashtag))
  /\ UNCHANGED << idxVars, pc, fsys, result, requests >>
  /\ UNCHANGED lpVars
  /\ UNCHANGED appVars

\* the read of one candidate settles and its callback runs (main.ts:927-942)
SearchRead ==
  /\ reads.call # "none"
  /\ \E i \in reads.waiting :
       reads' = [reads EXCEPT
         !.waiting = @ \ {i},
         !.results = pushGroup(@, reads.cands[i], fsys[reads.cands[i].relPath], reads.token)]
  /\ UNCHANGED << idxVars, pc, fsys, result, requests >>
  /\ UNCHANGED lpVars
  /\ UNCHANGED appVars

\* all reads have settled: the groups are sorted and returned (main.ts:944-951)
SearchReturn ==
  /\ reads.call # "none"
  /\ reads.waiting = {}
  /\ result' = [call |-> reads.call, args |-> << reads.token >>,
                 value |-> stableSort(reads.results, searchResultCompare)]
  /\ reads' = NoSearch
  /\ UNCHANGED << idxVars, pc, fsys, requests >>
  /\ UNCHANGED lpVars
  /\ UNCHANGED appVars

NextSearch ==
  \/ CallSearchMention
  \/ CallSearchHashtag
  \/ SearchRead
  \/ SearchReturn

SpecSearch == InitSearch /\ [][NextSearch]_vars

\* ---- the word boundary of a mention (main.ts:481, 898-901, 930) ----
MaxLineLen == 4

\* the texts in which a mention is looked for: up to MaxLineLen characters,
\* among them the sign, letters, a dot, a space and a line break
BoundaryTexts ==
  UNION {[1..n -> {"e", "@", "A", ".", " ", "\n"}] : n \in 0..MaxLineLen}

\* re.test(line) of searchLines (main.ts:930)
lineTest(line, token) == \E k \in 0..Len(line) : tokenAt(line, k, token)

\* a file that holds one of the texts
InitBoundary ==
  /\ doc = << >>
  /\ selAnchor = 0
  /\ selHead = 0
  /\ treeComplete = TRUE
  /\ cursorPos = 0
  /\ decorations = << >>
  /\ upd = NoUpdate
  /\ InitIndexVars
  /\ pc = "idle"
  /\ \E text \in BoundaryTexts : fsys = [ok |-> TRUE, text |-> text]
  /\ reads = << >>
  /\ result = [call |-> "none", args |-> << >>, value |-> << >>]
  /\ requests = {}
  /\ InitAppVars

\* parseNoteContent on the text of the file (main.ts:491-520)
CallParseNoteContent ==
  /\ result' = [call |-> "parseNoteContent", args |-> << fsys.text >>,
                 value |-> parseNoteContent(fsys.text).mentions]
  /\ UNCHANGED << idxVars, pc, fsys, reads, requests >>
  /\ UNCHANGED lpVars
  /\ UNCHANGED appVars

\* the pattern of searchMention for @A tested on a line of the file
\* (main.ts:898-901, 929-930)
CallLineTest ==
  /\ \E n \in 1..Len(DocLines(fsys.text)) :
       result' = [call |-> "test",
                  args |-> << Slice(fsys.text, DocLines(fsys.text)[n].from, DocLines(fsys.text)[n].to),
                              << "@", "A" >> >>,
                  value |-> lineTest(Slice(fsys.text, DocLines(fsys.text)[n].from,
                                           DocLines(fsys.text)[n].to), << "@", "A" >>)]
  /\ UNCHANGED << idxVars, pc, fsys, reads, requests >>
  /\ UNCHANGED lpVars
  /\ UNCHANGED appVars

NextBoundary ==
  \/ CallParseNoteContent
  \/ CallLineTest

SpecBoundary == InitBoundary /\ [][NextBoundary]_vars

\* ---- C11 ----

\* the step makes the prepared call r
Called(r) == r \in requests /\ requests' = requests \ {r}

\* C11: a single-entry operation prepared before a rebuild started and made
\* after that rebuild completed is stale: it is detected and discarded, so
\* the index the rebuild produced stays as it is.
C11_StaleDiscarded ==
  [][\A r \in requests :
       (r.age = "superseded" /\ Called(r))
         => UNCHANGED << entries, byLinkKey, byRelPath, backlinkIndex >>]_vars

\* ---- C12 ----
\* a note file the scan can get to and read: it can be read, and so can every
\* directory from the notes directory down to the one that holds it
reachableFile(k) ==
  /\ k \in DOMAIN fsys.files
  /\ fsys.files[k].ok
  /\ \A d \in 1..Len(DirList) :
       (/\ Len(DirList[d]) <= Len(PathList[k].dirs)
        /\ SubSeq(PathList[k].dirs, 1, Len(DirList[d])) = DirList[d]) => fsys.dirs[d]

\* C12: build() never fails on a file or directory that cannot be read: when
\* it completes it has not thrown, a file that cannot be read and a file in a
\* directory that cannot be listed have no entry, and every note file that can
\* be read under directories that can be listed has exactly one entry.
C12_BuildNeverFails ==
  [][(pc = "scanning" /\ pc' # "scanning")
       => /\ pc' = "idle"
          /\ \A k \in 1..Len(PathList) :
               Cardinality({i \in 1..Len(entries') : entries'[i].relPath = PathList[k]})
                 = IF reachableFile(k) THEN 1 ELSE 0]_vars

\* a build has completed with one entry although the notes directory holds a
\* second file that cannot be read and a subdirectory that cannot be listed
C12_Witness ==
  /\ pc = "idle"
  /\ Len(entries) = 1
  /\ fsys.dirs[1]
  /\ \E k \in DOMAIN fsys.files : PathList[k].dirs = << >> /\ ~fsys.files[k].ok
  /\ \E d \in 2..Len(DirList) : ~fsys.dirs[d]

\* ---- C13 ----
\* the entries of the files the scan can get to and read, in depth-first
\* listing order: per directory its files in listing order, then the entries
\* of its subdirectories in listing order (PathList is written in this order)
inListingOrder ==
  LET ks == SelectSeq([k \in 1..Len(PathList) |-> k], LAMBDA k : reachableFile(k))
  IN  [n \in 1..Len(ks) |-> scanEntry(PathList[ks[n]], fsys.files[ks[n]].text)]

\* C13: the order of the entries a build assigns depends only on the
\* directory listings, not on the order in which the reads and the scans of
\* the subdirectories complete.
C13_ListingOrder ==
  [][(pc = "scanning" /\ pc' = "idle") => entries' = inListingOrder]_vars

\* the read of the second file of a directory has completed with an entry
\* while the read of the first file, which can be read too, is still in flight
C13_Witness ==
  \E d \in 1..Len(DirList) :
    /\ reads[d].stage = "files"
    /\ Len(reads[d].results) = 2
    /\ reads[d].results[1] = NoEntry("pending")
    /\ fsys.files[reads[d].files[1]].ok
    /\ reads[d].results[2] \notin {NoEntry("pending"), NoEntry("null")}

\* ---- C14 ----
\* C14: updateEntry(path, text) on an indexed path replaces the title (the
\* filename without its extension when the text has none), the outgoing
\* links, the mentions and the hashtags of the entry of that path by those of
\* the text, leaves its filename, path and flags and every other entry as they
\* are, and rebuilds the maps; on a path that is not indexed it changes nothing.
C14_UpdateFrame ==
  [][result'.call = "updateEntry" =>
       IF \E i \in 1..Len(entries) : entries[i].relPath = result'.args[1]
       THEN /\ Len(entries') = Len(entries)
            /\ \E i \in 1..Len(entries) :
                 /\ entries[i].relPath = result'.args[1]
                 /\ entries'[i].title =
                      IF parseNoteContent(result'.args[2]).title # << >>
                      THEN parseNoteContent(result'.args[2]).title
                      ELSE stripTxt(entries[i].filename)
                 /\ entries'[i].outgoingLinks = parseNoteContent(result'.args[2]).outgoingLinks
                 /\ entries'[i].mentions = parseNoteContent(result'.args[2]).mentions
                 /\ entries'[i].hashtags = parseNoteContent(result'.args[2]).hashtags
                 /\ entries'[i].filename = entries[i].filename
                 /\ entries'[i].relPath = entries[i].relPath
                 /\ entries'[i].isArchived = entries[i].isArchived
                 /\ entries'[i].isTrashed = entries[i].isTrashed
                 /\ \A j \in (1..Len(entries)) \ {i} : entries'[j] = entries[j]
            /\ rebuildMaps(entries') =
                 [byLinkKey |-> byLinkKey', byRelPath |-> byRelPath', backlinkIndex |-> backlinkIndex']
       ELSE UNCHANGED << entries, byLinkKey, byRelPath, backlinkIndex >>]_vars

\* updateEntry has been called with a text without a title on one of two
\* entries, which now has the filename as its title and the mentions of the text
C14_Witness ==
  /\ result.call = "updateEntry"
  /\ Len(entries) = 2
  /\ \E i \in 1..2 :
       /\ entries[i].relPath = result.args[1]
       /\ entries[3 - i].relPath # result.args[1]
       /\ ~parseNoteContent(result.args[2]).titled
       /\ entries[i].title = stripTxt(entries[i].filename)
       /\ entries[i].mentions # << >>

\* ---- C15 ----
\* how well an entry matches the lowercased query q: 0 for an exact match of
\* the title or the filename key, 1 for a prefix match, 2 for a match inside,
\* 3 for none
matchRank(e, q) ==
  LET occurs(t, k) == k + Len(q) - 1 <= Len(t) /\ \A i \in 1..Len(q) : t[k + i - 1] = q[i]
  IN  IF toLowerCase(e.title) = q \/ linkKey(e.filename) = q THEN 0
      ELSE IF occurs(toLowerCase(e.title), 1) \/ occurs(linkKey(e.filename), 1) THEN 1
      ELSE IF \E k \in 1..Len(e.title) : occurs(toLowerCase(e.title), k) THEN 2
      ELSE IF \E k \in 1..Len(e.filename) : occurs(linkKey(e.filename), k) THEN 2
      ELSE 3

casingsOf(key) ==
  Flatten([i \in 1..Len(entries) |->
             IF entries[i].isTrashed THEN << >>
             ELSE SelectSeq(entries[i].mentions, LAMBDA f : toLowerCase(f) = key)])

\* the number of active entries that use the casing f
activeUses(f) ==
  Cardinality({i \in 1..Len(entries) :
                 /\ ~entries[i].isArchived
                 /\ ~entries[i].isTrashed
                 /\ includes(entries[i].mentions, f)})

\* C16: the canonical form of every group of getMentionsRanked is the casing
\* that the largest number of active entries use, the first one seen among
\* those that tie, also when one entry holds several casings of the mention.
C16_CanonicalForm ==
  result.call = "getMentionsRanked" =>
    \A k \in 1..Len(result.value) :
      \E n \in 1..Len(casingsOf(toLowerCase(result.value[k].mention))) :
        /\ result.value[k].mention = casingsOf(toLowerCase(result.value[k].mention))[n]
        /\ \A o \in 1..Len(casingsOf(toLowerCase(result.value[k].mention))) :
             /\ activeUses(casingsOf(toLowerCase(result.value[k].mention))[o])
                  <= activeUses(result.value[k].mention)
             /\ o < n => activeUses(casingsOf(toLowerCase(result.value[k].mention))[o])
                            < activeUses(result.value[k].mention)

\* ---- C17 ----
\* the case-insensitive mentions of the entries that are not trashed
mentionKeys ==
  UNION {{toLowerCase(entries[i].mentions[j]) : j \in 1..Len(entries[i].mentions)} :
           i \in {n \in 1..Len(entries) : ~entries[n].isTrashed}}

otherSign(tag) == [tag EXCEPT ![1] = IF @ = "@" THEN "#" ELSE "@"]

\* the index in which every entry holds its hashtags as mentions and its
\* mentions as hashtags
tagsSwapped ==
  [i \in 1..Len(entries) |->
     [entries[i] EXCEPT
        !.mentions = [j \in 1..Len(entries[i].hashtags) |-> otherSign(entries[i].hashtags[j])],
        !.hashtags = [j \in 1..Len(entries[i].mentions) |-> otherSign(entries[i].mentions[j])]]]

hasGroup(e) ==
  /\ ~e.isTrashed
  /\ \E tag \in IF result.call = "searchMention"
                 THEN {e.mentions[j] : j \in 1..Len(e.mentions)}
                 ELSE {e.hashtags[j] : j \in 1..Len(e.hashtags)} :
       toLowerCase(tag) = toLowerCase(result.args[1])
  /\ fsys[e.relPath].ok
  /\ \E n \in 1..Len(DocLines(fsys[e.relPath].text)) :
       \E k \in 0..Len(fsys[e.relPath].text) :
         tokenAt(Slice(fsys[e.relPath].text,
                       DocLines(fsys[e.relPath].text)[n].from,
                       DocLines(fsys[e.relPath].text)[n].to), k, result.args[1])

\* C19: searchMention and searchHashtag return a group for an entry exactly
\* when the entry is not trashed, its parsed tags contain the token whatever
\* the case, its file can be read and a line of it matches; a candidate whose
\* file cannot be read is skipped and one without a matching line is left out.
C19_SearchGroups ==
  result.call \in {"searchMention", "searchHashtag"} =>
    /\ \A k \in 1..Len(result.value) :
         /\ hasGroup(result.value[k].entry)
         /\ result.value[k].lines # << >>
    /\ \A i \in 1..Len(entries) :
         Cardinality({k \in 1..Len(result.value) : result.value[k].entry = entries[i]})
           = IF hasGroup(entries[i])
             THEN Cardinality({j \in 1..Len(entries) : entries[j] = entries[i]})
             ELSE 0

\* a search has returned the group of one of two candidates, with a
\* candidate whose file cannot be read
C19_Witness ==
  /\ result.call = "searchMention"
  /\ Len(entries) = 2
  /\ Len(mentionCandidates(entries, result.args[1])) = 2
  /\ Len(result.value) = 1
  /\ \E i \in 1..2 : ~fsys[entries[i].relPath].ok

\* ---- C20 ----
\* C20: the groups a search returns are ordered with those of active entries
\* before those of archived entries, and alphabetically by the title of the
\* entry within each.
C20_SearchOrder ==
  result.call \in {"searchMention", "searchHashtag"} =>
    \A i, j \in 1..Len(result.value) :
      i < j =>
        \/ ~result.value[i].entry.isArchived /\ result.value[j].entry.isArchived
        \/ /\ result.value[i].entry.isArchived = result.value[j].entry.isArchived
           /\ localeCompareBase(result.value[i].entry.title, result.value[j].entry.title) <= 0

\* a search has returned two groups, that of the active entry first although
\* the archived entry precedes it in the index and in the alphabet
C20_Witness ==
  /\ result.call = "searchHashtag"
  /\ Len(result.value) = 2
  /\ Len(entries) = 2
  /\ result.value[1].entry = entries[2]
  /\ entries[1].isArchived /\ ~entries[2].isArchived
  /\ localeCompareBase(entries[1].title, entries[2].title) < 0

\* ---- C21 ----
\* the token stands in the text at a word boundary: at the start of the text
\* or of a line, or directly after whitespace
atBoundary(text, token) ==
  \E k \in 0..Len(text) :
    /\ StartsAt(text, k, token)
    /\ k = 0 \/ text[k] \in {" ", "\n"}

\* the token stands at a word boundary and ends the text or is followed by
\* whitespace
asWord(text, token) ==
  \E k \in 0..Len(text) :
    /\ StartsAt(text, k, token)
    /\ k = 0 \/ text[k] \in {" ", "\n"}
    /\ k + Len(token) = Len(text) \/ text[k + Len(token) + 1] \in {" ", "\n"}

\* C21: a mention is recognised only at a word boundary: a line in which the
\* token stands only inside a word is not matched by the search for it and
\* does not add it to the parsed mentions, and a line in which it stands as a
\* word of its own is matched and adds it.
C21_WordBoundary ==
  /\ result.call = "test" =>
       /\ result.value => atBoundary(result.args[1], result.args[2])
       /\ asWord(result.args[1], result.args[2]) => result.value
  /\ result.call = "parseNoteContent" =>
       /\ includes(result.value, << "@", "A" >>) => atBoundary(result.args[1], << "@", "A" >>)
       /\ asWord(result.args[1], << "@", "A" >>) => includes(result.value, << "@", "A" >>)

\* the search pattern has not matched a line that holds the token inside a word only
C21_Witness ==
  /\ result.call = "test"
  /\ ~result.value
  /\ Len(result.args[1]) = 4
  /\ StartsAt(result.args[1], 1, result.args[2])
  /\ result.args[1][1] = "e"
  /\ result.args[1][4] = "."

\* ---- C22 ----
\* what the list marker of a line says: after the leading whitespace, - [ ]
\* is an open task, - [x] a done one, - [-] a cancelled one, - [>] a scheduled
\* one, * a bullet, a - before a bracket token a checkbox being typed, and
\* any other - an open task
markerState(text) ==
  LET w == leadRun(text, {" ", "\t"})
      box(c) == StartsAt(text, w, << "-", " ", "[", c, "]", " " >>)
  IN  IF box(" ") THEN [state |-> "open", prefixEnd |-> w + 6]
      ELSE IF box("x") THEN [state |-> "done", prefixEnd |-> w + 6]
      ELSE IF box("-") THEN [state |-> "cancelled", prefixEnd |-> w + 6]
      ELSE IF box(">") THEN [state |-> "scheduled", prefixEnd |-> w + 6]
      ELSE IF StartsAt(text, w, << "*", " " >>) THEN [state |-> "bullet", prefixEnd |-> w + 2]
      ELSE IF StartsAt(text, w, << "-", " ", "[", "]" >>)
              \/ (StartsAt(text, w, << "-", " ", "[" >>) /\ CharAt(text, w + 4) = "]")
      THEN [state |-> "typing", prefixEnd |-> w + 2]
      ELSE IF StartsAt(text, w, << "-", " " >>) THEN [state |-> "open", prefixEnd |-> w + 2]
      ELSE [state |-> "none", prefixEnd |-> w]

\* the task states the decorations give the line [from, to]: those of its
\* task widgets and of its task line classes
shownTaskStates(from, to) ==
  {st \in {"open", "done", "cancelled", "scheduled"} :
     \E k \in 1..Len(decorations) :
       /\ decorations[k].from >= from
       /\ decorations[k].from <= to
       /\ decorations[k].type = "replace"
       /\ taskCls(st) = decorations[k].cls}
  \cup {st \in {"done", "cancelled", "scheduled"} :
          HasLineClass(decorations, IF st = "done" THEN "task-done-line"
                                    ELSE IF st = "cancelled" THEN "task-cancelled-line"
                                    ELSE "task-scheduled-line", from)}

\* C22: the list marker of a line determines its task state: with the cursor
\* outside the marker, a line with - or - [ ] is shown as an open task, with
\* - [x] as done, with - [-] as cancelled, with - [>] as scheduled, and a line
\* with * as no task at all, and a line with a - before a bracket token not
\* as an open task.
C22_TaskStates ==
  pc = "built" =>
    \A i \in 1..Len(DocLines(doc)) :
      LET from == DocLines(doc)[i].from
          to == DocLines(doc)[i].to
          ms == markerState(Slice(doc, from, to))
      IN  (ms.state # "none" /\ ~(cursorPos >= from /\ cursorPos <= from + ms.prefixEnd))
            => IF ms.state = "typing" THEN "open" \notin shownTaskStates(from, to)
               ELSE shownTaskStates(from, to) = IF ms.state = "bullet" THEN {} ELSE {ms.state}

\* ---- C23 ----
\* the decorations the line that starts at from has from the pass by
fromPass(from, to, by) ==
  {k \in 1..Len(decorations) :
     decorations[k].by = by /\ decorations[k].from >= from /\ decorations[k].from <= to}

\* C23: the leading indentation of a line is handled by at most one pass:
\* there is at most one Hide that starts at the line start and lies within
\* the leading whitespace, at most one indent-depth line class, of depth
\* min(number of leading tabs, 3), and a line that is handled as heading,
\* blockquote or list or task line is not handled as an indented paragraph.
C23_OneIndentPass ==
  pc = "built" =>
    \A i \in 1..Len(DocLines(doc)) :
      LET from == DocLines(doc)[i].from
          to == DocLines(doc)[i].to
          text == Slice(doc, from, to)
      IN  /\ Cardinality({k \in 1..Len(decorations) :
                            /\ decorations[k].type = "replace"
                            /\ decorations[k].cls = "hidden"
                            /\ decorations[k].from = from
                            /\ decorations[k].to > from
                            /\ decorations[k].to <= from + leadRun(text, {" ", "\t"})}) <= 1
          /\ Cardinality({k \in 1..Len(decorations) :
                            /\ decorations[k].type = "line"
                            /\ decorations[k].from = from
                            /\ \E n \in 1..IndentCap : indentCls(n) = decorations[k].cls}) <= 1
          /\ \A k \in 1..Len(decorations) :
               (/\ decorations[k].type = "line"
                /\ decorations[k].from = from
                /\ \E n \in 1..IndentCap : indentCls(n) = decorations[k].cls)
                 => indentCls(IF leadRun(text, {"\t"}) < 3 THEN leadRun(text, {"\t"}) ELSE 3)
                      = decorations[k].cls
          /\ fromPass(from, to, "tab") # {} =>
               /\ fromPass(from, to, "heading") = {}
               /\ fromPass(from, to, "tree-heading") = {}
               /\ fromPass(from, to, "quote") = {}
               /\ fromPass(from, to, "tree-quote") = {}
               /\ fromPass(from, to, "task") = {}
               /\ fromPass(from, to, "tree-list") = {}

\* ---- C24 ----

\* the elements of a sequence
elems(q) == {q[k] : k \in 1..Len(q)}

\* the lowercased targets of the outgoing links of entry e
targetsOf(e) == {toLowerCase(e.outgoingLinks[x]) : x \in 1..Len(e.outgoingLinks)}

\* C24: after every completed build, updateEntry or addEntry the derived
\* maps hold exactly what the entry list implies: each link key maps to
\* exactly the entries with that lowercased file-name key, and each backlink
\* key to exactly the paths of the entries that have an outgoing link with
\* that lowercased target; a key nothing implies is not in the maps.
C24_MapsExact ==
  LET all == 1..Len(entries)
      keyed(k) == {i \in all : linkKey(entries[i].filename) = k}
      linking(k) == {entries[i].relPath : i \in {j \in all : k \in targetsOf(entries[j])}}
  IN  /\ \A k \in DOMAIN byLinkKey \cup {linkKey(entries[i].filename) : i \in all} :
           /\ k \in DOMAIN byLinkKey
           /\ elems(byLinkKey[k]) = keyed(k)
           /\ keyed(k) # {}
      /\ \A k \in DOMAIN backlinkIndex \cup UNION {targetsOf(entries[i]) : i \in all} :
           /\ k \in DOMAIN backlinkIndex
           /\ elems(backlinkIndex[k]) = linking(k)
           /\ linking(k) # {}

\* two entries at different paths share a file-name key and both link to
\* the target b, one of them since an updateEntry or addEntry gave it links
C24_Witness ==
  /\ pc = "idle"
  /\ Len(entries) = 2
  /\ entries[1].relPath # entries[2].relPath
  /\ linkKey(entries[1].filename) = linkKey(entries[2].filename)
  /\ Len(MapGet(byLinkKey, linkKey(entries[1].filename), << >>)) = 2
  /\ elems(MapGet(backlinkIndex, << "b" >>, << >>)) = {entries[1].relPath, entries[2].relPath}

\* ---- C25 ----
\* Single-entry calls made while build() awaits its scan.  The call is kept
\* in requests as an operation the build in flight has passed ("scanned");
\* when the build completes it becomes "superseded" like the others.

\* the texts of the calls made during the scan: a text with links and no
\* heading
RaceTexts == {<< "[", "[", "b", "]", "]", "[", "[", " ", "B", " ", "]", "]" >>}

\* the record of a call made during the scan
madeDuringScan(op, relPath, content) ==
  [op |-> op, relPath |-> relPath, content |-> content, age |-> "scanned"]

\* addEntry is called while build() awaits scanDirectory (main.ts:538)
AddDuringScan ==
  /\ pc = "scanning"
  /\ Len(entries) < MaxEntries
  /\ \E relPath \in Paths, content \in RaceTexts :
       /\ addEntry(relPath, relPath.name, content)
       /\ requests' = {madeDuringScan("addEntry", relPath, content)}
  /\ UNCHANGED << scanned, pc, fsys, reads, result >>
  /\ UNCHANGED lpVars
  /\ UNCHANGED appVars

\* updateEntry is called on an indexed note while build() awaits
\* scanDirectory (main.ts:538)
UpdateDuringScan ==
  /\ pc = "scanning"
  /\ \E relPath \in DOMAIN byRelPath, content \in RaceTexts :
       /\ updateEntry(relPath, content)
       /\ requests' = {madeDuringScan("updateEntry", relPath, content)}
  /\ UNCHANGED << scanned, pc, fsys, reads, result >>
  /\ UNCHANGED lpVars
  /\ UNCHANGED appVars

NextRace ==
  \/ BuildStart
  \/ ScanFile
  \/ BuildFinish
  \/ AddDuringScan
  \/ UpdateDuringScan

SpecRace == InitIdx /\ [][NextRace]_vars

\* what call r left is in the entries es: the entry at its path, and for an
\* updateEntry the metadata of its text
keptIn(es, r) ==
  \E i \in 1..Len(es) :
    /\ es[i].relPath = r.relPath
    /\ r.op = "updateEntry" =>
         /\ es[i].title = titleOr(parseNoteContent(r.content), es[i].filename)
         /\ es[i].outgoingLinks = parseNoteContent(r.content).outgoingLinks
         /\ es[i].mentions = parseNoteContent(r.content).mentions
         /\ es[i].hashtags = parseNoteContent(r.content).hashtags

\* C25: an entry inserted by addEntry, or metadata replaced by updateEntry,
\* while build() awaits its scan is not lost: when that build completes the
\* index holds the inserted entry and the updated metadata.
C25_NotLostByBuild ==
  [][(pc = "scanning" /\ pc' = "idle")
       => \A r \in requests : r.age = "scanned" => keptIn(entries', r)]_vars

\* ---- C26 ----

\* C26: after any sequence of build, addEntry and updateEntry no two entries
\* of the index have the same path, and getEntry(e.relPath) returns e for
\* every entry e of the entry list.
C26_PathsUnique ==
  /\ \A i, j \in 1..Len(entries) : entries[i].relPath = entries[j].relPath => i = j
  /\ \A i \in 1..Len(entries) : getEntry(byRelPath, entries[i].relPath) = i

\* ------------------------------------------------------------------------
\* The editor shell: navigation between notes and saving (main.ts:97-291)
\* ------------------------------------------------------------------------
\* A text is << note, n >>: the note whose file or editor state it was first
\* written in, and a number that tells its versions apart.  A write or a
\* load reaches the file when the call completes; calls that are awaited
\* complete in any order.

MaxEdits == 2

MaxTasks == 2

MaxHistory == 3

\* the notes there are, by relPath
Notes == {"A", "B"}

\* what the shell leaves alone
shellFrame ==
  << selAnchor, selHead, treeComplete, cursorPos, decorations, upd,
     entries, byLinkKey, byRelPath, backlinkIndex, scanned, pc,
     reads, result, requests >>

\* init() before its first navigateTo (main.ts:420-428): no view, every
\* note has its file
InitApp ==
  /\ doc = << >>
  /\ selAnchor = 0
  /\ selHead = 0
  /\ treeComplete = TRUE
  /\ cursorPos = 0
  /\ decorations = << >>
  /\ upd = NoUpdate
  /\ InitIndexVars
  /\ pc = "idle"
  /\ fsys = [p \in Notes |-> << p, 0 >>]
  /\ reads = << >>
  /\ result = << >>
  /\ requests = {}
  /\ InitAppVars

removeAt(q, k) == SubSeq(q, 1, k - 1) \o SubSeq(q, k + 1, Len(q))

\* the number of the next version of a text
nextVersion ==
  1 + Max({0} \cup {fsys[p][2] : p \in Notes}
              \cup (IF view = "null" THEN {} ELSE {doc[2]})
              \cup {tasks[k].text[2] : k \in {j \in 1..Len(tasks) : tasks[j].op # "load"}})

\* an awaited writeTextFile(currentNote.relPath, view.state.doc.toString())
\* (main.ts:179-180, 198): the arguments are taken when the call is made
writeCall(op, note, addToHistory) ==
  [op |-> op, path |-> currentNote, text |-> doc, from |-> view,
   note |-> note, addToHistory |-> addToHistory]

\* an awaited loadFile(note.relPath) (main.ts:277)
loadCall(note, addToHistory) ==
  [op |-> "load", path |-> note, text |-> << >>, from |-> "null",
   note |-> note, addToHistory |-> addToHistory]

\* the user changes the document: the update listener calls scheduleSave
\* (main.ts:251-256), which sets the timer anew and the dirty flag
\* (main.ts:173-176)
Edit ==
  /\ view # "null"
  /\ nextVersion <= MaxEdits
  /\ doc' = << doc[1], nextVersion >>
  /\ saveTimeout' = "pending"
  /\ isDirty' = TRUE
  /\ UNCHANGED << currentNote, view, navHistory, navIndex, tasks, fsys >>
  /\ UNCHANGED shellFrame

\* the timer of scheduleSave fires: the callback up to its await
\* (main.ts:176-180)
SaveTimer ==
  /\ saveTimeout = "pending"
  /\ Len(tasks) < MaxTasks
  /\ saveTimeout' = "fired"
  /\ tasks' = IF view = "null" \/ currentNote = "null" THEN tasks
              ELSE Append(tasks, writeCall("save", "null", FALSE))
  /\ UNCHANGED << doc, currentNote, view, isDirty, navHistory, navIndex, fsys >>
  /\ UNCHANGED shellFrame

\* the write of the timer callback completes (main.ts:180-181)
SaveWritten ==
  /\ \E k \in 1..Len(tasks) :
       /\ tasks[k].op = "save"
       /\ fsys' = [fsys EXCEPT ![tasks[k].path] = tasks[k].text]
       /\ tasks' = removeAt(tasks, k)
  /\ isDirty' = FALSE
  /\ UNCHANGED << doc, currentNote, saveTimeout, view, navHistory, navIndex >>
  /\ UNCHANGED shellFrame

\* navigateTo after its await of flushSave, up to its await of loadFile
\* (main.ts:266-277), with idx the value of navIndex and ts the other calls
\* that are awaited
afterFlush(note, addToHistory, idx, ts) ==
  /\ currentNote' = note
  /\ navHistory' = IF addToHistory
                   THEN Append(SubSeq(navHistory, 1, Min({idx + 1, Len(navHistory)})), note)
                   ELSE navHistory
  /\ navIndex' = IF addToHistory
                 THEN Min({idx + 1, Len(navHistory)})
                 ELSE idx
  /\ tasks' = Append(ts, loadCall(note, addToHistory))

\* navigateTo(note, addToHistory) up to its first await that waits for a
\* file: flushSave clears the timer and writes when the document is dirty
\* (main.ts:191-198); when it is not, navigateTo goes on to loadFile.  idx
\* is the value of navIndex when the call is made
navigateTo(note, addToHistory, idx) ==
  /\ saveTimeout' = "null"
  /\ IF view # "null" /\ currentNote # "null" /\ isDirty
     THEN /\ tasks' = Append(tasks, writeCall("flush", note, addToHistory))
          /\ navIndex' = idx
          /\ UNCHANGED << currentNote, navHistory >>
     ELSE afterFlush(note, addToHistory, idx, tasks)
  /\ UNCHANGED << doc, view, isDirty, fsys >>
  /\ UNCHANGED shellFrame

\* a call of navigateTo(note) from a link, the side bar or the date buttons
NavigateTo ==
  /\ Len(tasks) < MaxTasks
  /\ Len(navHistory)
       + Cardinality({k \in 1..Len(tasks) : tasks[k].op = "flush" /\ tasks[k].addToHistory})
       < MaxHistory
  /\ \E note \in Notes : navigateTo(note, TRUE, navIndex)

\* the write of flushSave completes and navigateTo goes on to loadFile
\* (main.ts:198-199, 266-277)
FlushWritten ==
  /\ \E k \in 1..Len(tasks) :
       /\ tasks[k].op = "flush"
       /\ fsys' = [fsys EXCEPT ![tasks[k].path] = tasks[k].text]
       /\ afterFlush(tasks[k].note, tasks[k].addToHistory, navIndex, removeAt(tasks, k))
  /\ isDirty' = FALSE
  /\ UNCHANGED << doc, saveTimeout, view >>
  /\ UNCHANGED shellFrame

\* loadFile returns and navigateTo gives the view the state of the content
\* (main.ts:277-287)
LoadDone ==
  /\ \E k \in 1..Len(tasks) :
       /\ tasks[k].op = "load"
       /\ doc' = fsys[tasks[k].path]
       /\ view' = tasks[k].note
       /\ tasks' = removeAt(tasks, k)
  /\ UNCHANGED << currentNote, saveTimeout, isDirty, navHistory, navIndex, fsys >>
  /\ UNCHANGED shellFrame

\* goBack (main.ts:217-224)
GoBack ==
  /\ Len(tasks) < MaxTasks
  /\ navIndex > 0
  /\ navigateTo(navHistory[navIndex], FALSE, navIndex - 1)

\* goForward (main.ts:226-233)
GoForward ==
  /\ Len(tasks) < MaxTasks
  /\ navIndex < Len(navHistory) - 1
  /\ navigateTo(navHistory[navIndex + 2], FALSE, navIndex + 1)

NextApp ==
  \/ Edit
  \/ SaveTimer
  \/ SaveWritten
  \/ NavigateTo
  \/ FlushWritten
  \/ LoadDone
  \/ GoBack
  \/ GoForward

SpecApp == InitApp /\ [][NextApp]_vars

\* ---- C27 ----

\* every navigateTo call has run to its end
settled == \A k \in 1..Len(tasks) : tasks[k].op = "save"

\* C27: for any interleaving of overlapping navigateTo calls and debounced
\* saves, the text in a note's file is a text loaded from or typed into that
\* note (no save writes one note's document to another note's path), and
\* once all navigations have settled the editor document is the content
\* loaded for currentNote.
C27_SaveOwnNote ==
  /\ \A p \in Notes : fsys[p][1] = p
  /\ (settled /\ currentNote # "null") => view = currentNote

\* ---- C28 ----

\* the number of loadFile calls awaited
loading(ts) == Cardinality({k \in 1..Len(ts) : ts[k].op = "load"})

\* C28: no edit is dropped by the save logic: when navigateTo replaces the
\* document of the view, the text it replaces is in the file of the note it
\* was loaded for (it was written earlier, or flushSave wrote it).
C28_NoEditDropped ==
  [][(loading(tasks') < loading(tasks) /\ view # "null") => fsys[view] = doc]_vars

\* ---- C29 ----

\* once every navigation has settled navIndex is an index of navHistory, or
\* -1 when the history is empty, and currentNote is navHistory[navIndex]
C29_Settled ==
  settled =>
    IF navHistory = << >> THEN navIndex = -1
    ELSE /\ navIndex \in 0..(Len(navHistory) - 1)
         /\ currentNote = navHistory[navIndex + 1]

\* a step that changes navHistory keeps the entries up to navIndex, discards
\* the ones after it and adds one note
C29_Steps ==
  navHistory' # navHistory =>
    \E note \in Notes :
      navHistory' = Append(SubSeq(navHistory, 1, navIndex + 1), note)

\* C29: after any sequence of navigateTo, goBack and goForward, once every
\* pending navigation has settled, navIndex is a valid index of navHistory
\* (-1 when it is empty) and currentNote is navHistory[navIndex]; goBack and
\* goForward never change navHistory, and a history-adding navigateTo
\* discards exactly the entries after navIndex.
C29_History == []C29_Settled /\ [][C29_Steps]_vars

\* ---- C30 ----

\* C30: after every update the plugin has processed with the main selection
\* collapsed, the stored cursor offset is the selection head and the
\* decorations are buildDecorations of the current document and that head,
\* for any sequence of edits, viewport changes, drag selections and cursor moves.
C30_InSync ==
  selAnchor = selHead =>
    /\ cursorPos = selHead
    /\ decorations = buildDecorations(doc, selHead, treeComplete)

====
